---- MODULE Spec2Model ----
(***************************************************************************)
(* Model of the ODBC driver's SQLExecute (sql/src/odbc/driver/SQLExecute.c)*)
(* of MonetDB: parameter substitution, the frame reader next_result, the   *)
(* header decoder and the row decoder, run against a read stream that      *)
(* delivers its bytes in chunks (specifications Spec and FairSpec); and of *)
(* the embedded Python binding's calls into the engine under the client's  *)
(* query lock (specification PySpec); and of stethoscope                   *)
(* (clients/src/mapiclient/stethoscope.c): its profiling threads, the list *)
(* of them and the signal handler that ends the session (specification     *)
(* StethSpec); and of the arithmetic of the row grid in C's int             *)
(* (specification GridSpec).  Each specification runs one of the programs  *)
(* and leaves the variables of the others as they start.                   *)
(*                                                                         *)
(* Bytes are one-character strings; the zero byte is NUL.  Buffers are     *)
(* functions over 0-based offsets, as the C code addresses them.           *)
(***************************************************************************)
EXTENDS Integers, Sequences, FiniteSets, TLC

VARIABLES
    input,        \* the responses the server sends (fixed by Init)
    State,        \* hstmt->State
    Query,        \* hstmt->Query, the query template
    bindParams,   \* hstmt->bindParams.array[1..size], NULL entries as unbound
    ResultCols,   \* hstmt->ResultCols
    ResultRows,   \* hstmt->ResultRows
    nrCols,       \* hstmt->nrCols
    nrRows,       \* hstmt->nrRows
    errors,       \* SQLSTATEs recorded on the statement by addStmtError
    Mws,          \* dbc->Mws: what has been written to the server
    Mrs,          \* dbc->Mrs: what is still to be read from the server
    pc,           \* position of the running SQLExecute call ("idle": none)
    ret,          \* return value of the last finished call
    site,         \* which call of next_result is running (1 or 2)
    type,         \* local: type
    status,       \* local: status
    nCols,        \* local: nCols
    nRows,        \* local: nRows
    nRow,         \* local: nRow
    nCol,         \* local: nCol
    pCol,         \* local: pCol, as an index into ResultCols
    bs,           \* local: the bstream (buf, pos, len, eof)
    sc,           \* local: sc, as an offset into bs->buf
    eof,          \* local: eof
    calls,        \* number of SQLExecute calls started
    entry,        \* statement and streams as they were when the call started
    hist,         \* what the running call has done so far (observations)
    \* the embedded Python binding, per thread of the interpreter
    tpc,          \* where the thread is in its call ("idle": in none)
    fn,           \* the function of the binding the thread called
    client,       \* argument: client (conn), NULL when not given
    cntxt,        \* local: c
    query_lock,   \* local: query_lock, the lock it points to
    ncalls,       \* calls of the binding started so far, by all threads
    locks,        \* MT_Lock: the thread that holds each lock
    gil,          \* the interpreter lock: the thread that holds it
    \* stethoscope
    mpc,          \* where main is
    alts,         \* the number of servers mapi_resolve found (0: alts == NULL)
    thds,         \* thds: the first wthread of the list, NULL before
    walk,         \* main's local walk
    wthreads,     \* the wthread structures: allocation state, s and next
    wpc,          \* where each doProfile is
    tick,         \* parity of the events each doProfile has printed
    sigs,         \* per signal delivered so far: the doProfiles that had
                  \* no stream yet when it came (observation)
    crashed,      \* the process was ended by a fault
    ub,           \* undefined behaviour has occurred (observation)
    cleaned,      \* doProfile ran its three cleanup queries (observation)
    \* the row grid with counts of any size
    gpc,          \* where the row decoder is ("frame": before line 292)
    gnCols,       \* local: nCols
    gnRows,       \* local: nRows
    gcount,       \* number of elements of ResultRows that were allocated
    gstored       \* the cells stored so far, each with the index it was given

execVars == <<input, State, Query, bindParams, ResultCols, ResultRows, nrCols,
              nrRows, errors, Mws, Mrs, pc, ret, site, type, status, nCols,
              nRows, nRow, nCol, pCol, bs, sc, eof, calls, entry, hist>>
pyVars == <<tpc, fn, client, cntxt, query_lock, ncalls, locks, gil>>
stethVars == <<mpc, alts, thds, walk, wthreads, wpc, tick, sigs, crashed, ub,
               cleaned>>

\* What a step of SQLExecute, of the binding and of stethoscope leaves alone.
gridVars == <<gpc, gnCols, gnRows, gcount, gstored>>
notExecVars == <<pyVars, stethVars, gridVars>>
notPyVars == <<execVars, stethVars, gridVars>>
notStethVars == <<execVars, pyVars, gridVars>>
notGridVars == <<execVars, pyVars, stethVars>>

vars == <<execVars, pyVars, stethVars, gridVars>>

(***************************************************************************)
(* Bounds of the model.                                                    *)
(***************************************************************************)
MaxCuts == 2        \* refill boundaries inside one payload
MaxCalls == 2       \* SQLExecute calls in one behaviour
MaxFieldLen == 2    \* length of a generated row field
BLOCK == 14         \* size of the bstream buffer (longer than any payload)

(***************************************************************************)
(* Program constants.                                                      *)
(***************************************************************************)
SQL_SUCCESS == "SQL_SUCCESS"    \* return codes, by name
SQL_ERROR == "SQL_ERROR"
Q_END == 0
Q_RESULT == 2
Q_TABLE == 3
Q_UPDATE == 4

NUL == "NUL"        \* the zero byte
UNINIT == "UNINIT"  \* a byte nobody wrote
QUOTE == "'"
DQUOTE == "\""
TAB == "\t"
NL == "\n"
COMMA == ","
MARKER == "?"
BSLASH == "\\"

Min(a, b) == IF a < b THEN a ELSE b
Max(a, b) == IF a > b THEN a ELSE b

(***************************************************************************)
(* The read stream.  What one read can return is one token: an integer     *)
(* (stream_readInt), a chunk of payload bytes (the stream's read, used by  *)
(* bstream_read), or one block of an error payload with its `last' flag    *)
(* (bs_read_next).  The empty sequence is end-of-stream.                   *)
(***************************************************************************)
IntTok(v) == [t |-> "int", v |-> v, d |-> <<>>, last |-> FALSE]
BytesTok(d) == [t |-> "bytes", v |-> 0, d |-> d, last |-> FALSE]
BlkTok(l) == [t |-> "blk", v |-> 0, d |-> <<>>, last |-> l]

\* What a read of the wrong kind can make of the bytes it finds.
GarbageInts == {0 - 1, Q_END, Q_RESULT, Q_TABLE, 1}
GarbageChunks == {<<"#">>, <<"#", NL>>}

\* stream_readInt(rs, &v): ok = 0 at end-of-stream, and v is then not set.
stream_readInt(rs, g) ==
    IF rs = <<>> THEN [ok |-> FALSE, v |-> g, rs |-> rs]
    ELSE IF Head(rs).t = "int" THEN [ok |-> TRUE, v |-> Head(rs).v, rs |-> Tail(rs)]
    ELSE [ok |-> TRUE, v |-> g, rs |-> Tail(rs)]

\* bs_read_next(rs, buf, &last): reads one block; last is not set when the
\* read fails.
bs_read_next(rs, last, g) ==
    IF rs = <<>> THEN [last |-> last, rs |-> rs]
    ELSE IF Head(rs).t = "blk" THEN [last |-> Head(rs).last, rs |-> Tail(rs)]
    ELSE [last |-> g, rs |-> Tail(rs)]

(***************************************************************************)
(* The buffered stream.                                                    *)
(***************************************************************************)
bstream_create == [buf |-> [i \in 0..BLOCK |-> UNINIT], pos |-> 0, len |-> 0, eof |-> FALSE]

\* bstream_read(bs, size): the unread remainder buf[pos..len) moves to the
\* start of the buffer, then at most `size' bytes are read behind it.
\* Result 0 is end-of-stream.
bstream_read(b, size, rs, g) ==
    IF b.eof THEN [bs |-> b, rs |-> rs, rd |-> 0]
    ELSE
      LET keep == IF b.pos < b.len THEN b.len - b.pos ELSE 0
          moved == IF b.pos > 0 /\ b.pos < b.len
                   THEN [i \in 0..BLOCK |-> IF i <= keep THEN b.buf[b.pos + i] ELSE b.buf[i]]
                   ELSE b.buf
          len0 == IF b.pos > 0 THEN keep ELSE b.len
          want == Min(size, BLOCK - len0)
          data == IF rs = <<>> THEN <<>>
                  ELSE IF Head(rs).t = "bytes" THEN Head(rs).d ELSE g
          n == Min(want, Len(data))
          rest == IF rs = <<>> THEN rs
                  ELSE IF n = Len(data) \/ Head(rs).t # "bytes" THEN Tail(rs)
                  ELSE <<BytesTok(SubSeq(data, n + 1, Len(data)))>> \o Tail(rs)
      IN IF n = 0
         THEN [bs |-> [buf |-> moved, pos |-> 0, len |-> len0, eof |-> TRUE],
               rs |-> rs, rd |-> 0]
         ELSE [bs |-> [buf |-> [i \in 0..BLOCK |->
                                  IF i >= len0 /\ i < len0 + n THEN data[i - len0 + 1]
                                  ELSE IF i = len0 + n THEN NUL
                                  ELSE moved[i]],
                       pos |-> 0, len |-> len0 + n, eof |-> FALSE],
               rs |-> rest, rd |-> n]

\* The scan loops `while (sc < ec && *sc != d) sc++'.
RECURSIVE ScanTo(_, _, _, _)
ScanTo(buf, from, ec, delims) ==
    IF from < ec /\ buf[from] \notin delims THEN ScanTo(buf, from + 1, ec, delims)
    ELSE from

\* The C string that starts at offset s: strdup(s).
RECURSIVE CStr(_, _)
CStr(buf, s) ==
    IF s > BLOCK \/ buf[s] = NUL THEN <<>>
    ELSE <<buf[s]>> \o CStr(buf, s + 1)

(***************************************************************************)
(* Parameter substitution.                                                 *)
(***************************************************************************)
\* Bytes the program reads without having written them: the value of an
\* uninitialised byte, and whether a slot read past the end of an array
\* looks like a non-NULL pointer.
GarbageBytes == {NUL, "#", DQUOTE}
Garbage0 == [byte |-> "#", ptr |-> FALSE, int |-> 0, chunk |-> <<"#">>, last |-> FALSE]
GBytePtr == {[Garbage0 EXCEPT !.byte = b, !.ptr = p] : b \in GarbageBytes, p \in BOOLEAN}
GChunk == {[Garbage0 EXCEPT !.chunk = c] : c \in GarbageChunks}

RECURSIVE Count(_, _)
Count(str, c) ==
    IF str = <<>> THEN 0
    ELSE (IF Head(str) = c THEN 1 ELSE 0) + Count(Tail(str), c)

\* The bytes of a sequence up to its first NUL.
RECURSIVE UpToNul(_)
UpToNul(str) ==
    IF str = <<>> \/ Head(str) = NUL THEN <<>>
    ELSE <<Head(str)>> \o UpToNul(Tail(str))

\* The second loop of convert: the bytes res[0..len) it leaves behind.  The
\* byte skipped by the second len++ is never written (g).
RECURSIVE convertFill(_, _)
convertFill(str, g) ==
    IF str = <<>> THEN <<>>
    ELSE (IF Head(str) = QUOTE THEN <<BSLASH, g>> ELSE <<>>)
         \o <<Head(str)>> \o convertFill(Tail(str), g)

\* convert(str): alloc is the malloc'ed length, res the bytes written before
\* the final NUL, text the C string the caller sees.
convert(str, g) ==
    LET res == convertFill(str, g)
    IN [alloc |-> Len(str) + Count(str, QUOTE) + 1,
        res |-> res,
        written |-> Len(res) + 1,
        text |-> UpToNul(res)]

\* Query[o] = c on the buffer kept as the sequence of its bytes.
SetAt(buf, o, c) ==
    IF o + 1 <= Len(buf) THEN [buf EXCEPT ![o + 1] = c]
    ELSE buf \o [k \in 1..(o - Len(buf)) |-> UNINIT] \o <<c>>

RECURSIVE PutStr(_, _, _)
PutStr(buf, o, str) ==
    IF str = <<>> THEN buf
    ELSE PutStr(SetAt(buf, o, Head(str)), o + 1, Tail(str))

\* snprintf(Query + o, n, "%s", str): at most n - 1 bytes and a NUL; n is
\* converted to size_t, so a negative n bounds nothing.
snprintf(buf, o, n, str) ==
    IF n = 0 THEN buf
    ELSE LET k == IF n < 0 THEN Len(str) ELSE Min(Len(str), n - 1)
         IN SetAt(PutStr(buf, o, SubSeq(str, 1, k)), o + k, NUL)

\* The byte at index i lies inside a string literal of the template.
InLiteral(str, i) == Count(SubSeq(str, 1, i - 1), QUOTE) % 2 = 1

\* A search that passes over the markers inside string literals.
RECURSIVE strchr_SkipLiterals(_, _, _)
strchr_SkipLiterals(str, from, c) ==
    IF from > Len(str) THEN 0
    ELSE IF str[from] = c /\ ~InLiteral(str, from) THEN from
    ELSE strchr_SkipLiterals(str, from + 1, c)

\* strchr(query, '?') on the template, as a 1-based index (0: not found).
RECURSIVE strchr(_, _, _)
strchr(str, from, c) ==
    IF from > Len(str) THEN 0
    ELSE IF str[from] = c THEN from
    ELSE strchr(str, from + 1, c)

\* The first loop over bindParams (lines 140-146): how many values were
\* converted before the loop ended or hit an unbound parameter.
RECURSIVE nConverted(_, _)
nConverted(params, i) ==
    IF i > Len(params) \/ ~params[i].bound THEN i - 1
    ELSE nConverted(params, i + 1)

strings(params, g) ==
    [i \in 1..nConverted(params, 1) |-> convert(params[i].v, g.byte)]

\* The slots of the temporary array: calloc(bindParams.size, ...) at lines
\* 137-138, and the slots the loop of lines 170-173 frees.
stringsAlloc(params) == 0..(Len(params) - 1)
stringsFreed(params) == {i \in 0..(Len(params) - 1) : i \in 1..nConverted(params, 1)}

RECURSIVE SumLen(_, _)
SumLen(strs, i) ==
    IF i > Len(strs) THEN 0 ELSE 2 + Len(strs[i].text) + SumLen(strs, i + 1)

queryLen(tmpl, params, g) == Len(tmpl) + 1 + SumLen(strings(params, g), 1)

\* hstmt->bindParams.array[k] != NULL; a slot past the array is garbage.
IsBound(params, k, g) == IF k <= Len(params) THEN params[k].bound ELSE g.ptr

\* strings[k] as printed by %s; a slot past the array is garbage.
StringAt(params, k, g) ==
    IF k <= nConverted(params, 1) THEN strings(params, g)[k].text ELSE <<"#">>

\* The substitution loop (lines 151-169).  st: query (1-based index into the
\* template), i, params, the bytes of Query, the largest index used into
\* strings, and which marker was given which strings[params].
RECURSIVE SubstLoop(_, _, _, _)
SubstLoop(tmpl, params, g, st) ==
    IF st.query > Len(tmpl) THEN st
    ELSE
      LET qlen == queryLen(tmpl, params, g)
          m == strchr(tmpl, st.query, MARKER)
      IN IF m # 0 /\ ~IsBound(params, st.params, g) THEN st
         ELSE
           LET t1 == SubSeq(tmpl, st.query, m - 1) \o <<QUOTE>>
                     \o StringAt(params, st.params, g) \o <<QUOTE>>
               buf1 == IF m # 0 THEN snprintf(st.buf, st.i, qlen - st.i, t1) ELSE st.buf
               i1 == IF m # 0 THEN st.i + Len(t1) ELSE st.i
               old == IF m # 0 THEN m + 1 ELSE st.query
               t2 == SubSeq(tmpl, old, Len(tmpl))
               buf2 == IF t2 # <<>> THEN snprintf(buf1, i1, qlen - i1, t2) ELSE buf1
               i2 == IF t2 # <<>> THEN i1 + Len(t2) ELSE i1
               nxt == [query |-> IF m # 0 THEN m + 1 ELSE Len(tmpl) + 1,
                       i |-> i2,
                       params |-> IF m # 0 THEN st.params + 1 ELSE st.params,
                       buf |-> SetAt(buf2, i2, NUL),
                       maxStr |-> IF m # 0 THEN Max(st.maxStr, st.params) ELSE st.maxStr,
                       used |-> IF m # 0
                                THEN Append(st.used, [at |-> m, param |-> st.params])
                                ELSE st.used]
           IN SubstLoop(tmpl, params, g, nxt)

\* Lines 130-177: the text of `query' handed to stream_write, and whether a
\* write or read left the allocated memory on the way.
Substitute(tmpl, params, g) ==
    IF Len(params) = 0
    THEN [text |-> tmpl, ovf |-> FALSE, used |-> <<>>]
    ELSE LET strs == strings(params, g)
             fin == SubstLoop(tmpl, params, g,
                              [query |-> 1, i |-> 0, params |-> 1,
                               buf |-> <<NUL>>, maxStr |-> 0, used |-> <<>>])
         IN [text |-> UpToNul(fin.buf),
             used |-> fin.used,
             ovf |-> \/ Len(strs) = Len(params)             \* strings[size]
                     \/ \E k \in 1..Len(strs) : strs[k].written > strs[k].alloc
                     \/ Len(fin.buf) > queryLen(tmpl, params, g)
                     \/ fin.maxStr >= Len(params)]

(***************************************************************************)
(* The header decoder (lines 195-281).                                     *)
(***************************************************************************)
sql_types ==
    << [name |-> <<"b","i","t">>, type |-> 0 - 7],
       [name |-> <<"u","c","h","r">>, type |-> 0 - 28],
       [name |-> <<"c","h","a","r">>, type |-> 1],
       [name |-> <<"s","h","t">>, type |-> 0 - 15],
       [name |-> <<"i","n","t">>, type |-> 0 - 16],
       [name |-> <<"l","n","g">>, type |-> 0 - 25],
       [name |-> <<"f","l","t">>, type |-> 7],
       [name |-> <<"d","b","l">>, type |-> 8],
       [name |-> <<"d","a","t","e">>, type |-> 91],
       [name |-> <<"t","i","m","e">>, type |-> 92],
       [name |-> <<"t","i","m","e","s","t","a","m","p">>, type |-> 93] >>

\* A lookup that compares only the first strlen(p->name) bytes.
TypeOf_PrefixMatch(typeName) ==
    LET Pre(n) == Len(n) <= Len(typeName) /\ SubSeq(typeName, 1, Len(n)) = n
    IN IF \E k \in 1..Len(sql_types) : Pre(sql_types[k].name)
       THEN sql_types[CHOOSE k \in 1..Len(sql_types) :
                        /\ Pre(sql_types[k].name)
                        /\ \A j \in 1..(k - 1) : ~Pre(sql_types[j].name)].type
       ELSE 0

\* The lookup loop of lines 261-266; 0 is what memset left in the field.
TypeOf(typeName) ==
    IF \E k \in 1..Len(sql_types) : sql_types[k].name = typeName
    THEN sql_types[CHOOSE k \in 1..Len(sql_types) :
                     /\ sql_types[k].name = typeName
                     /\ \A j \in 1..(k - 1) : sql_types[j].name # typeName].type
    ELSE 0

\* A ColumnHeader as memset leaves it, and as lines 267-278 fill it.
ZeroCol == [name |-> <<>>, typeName |-> <<>>, type |-> 0, displaySize |-> 0,
            filled |-> FALSE]
MakeCol(name, typeName) ==
    [name |-> name, typeName |-> typeName, type |-> TypeOf(typeName),
     displaySize |-> Len(name) + 2, filled |-> TRUE]

\* Lines 224-227: bs->pos = s - bs->buf; eof = (bstream_read(...) == 0);
\* sc = bs->buf + bs->pos; ec = bs->buf + bs->len.
Refill(b, s, rs, g) ==
    LET b1 == [b EXCEPT !.pos = s]
        r == bstream_read(b1, BLOCK - (b1.len - b1.pos), rs, g.chunk)
    IN [bs |-> r.bs, rs |-> r.rs, eof |-> (r.rd = 0), sc |-> r.bs.pos]

\* lines 261-279: the store through pCol; a pCol past ResultCols[nCols]
\* writes outside the array.
StoreCol(h, col) ==
    IF h.pCol <= Len(h.cols)
    THEN [h EXCEPT !.cols[h.pCol] = col, !.pCol = h.pCol + 1]
    ELSE [h EXCEPT !.pCol = h.pCol + 1, !.ovf = TRUE]

\* One iteration of `while (sc < ec)' (lines 216-280) on the decoder's
\* locals h = [bs, rs, sc, eof, pCol, cols, brk, ovf]; ec is bs.len.
HeaderIter(h, g) ==
    LET s == h.sc
        sc1 == ScanTo(h.bs.buf, h.sc, h.bs.len, {COMMA})
    IN IF sc1 >= h.bs.len /\ ~h.eof
       THEN LET r == Refill(h.bs, s, h.rs, g)
            IN [h EXCEPT !.bs = r.bs, !.rs = r.rs, !.eof = r.eof, !.sc = r.sc]
       ELSE IF h.eof THEN [h EXCEPT !.brk = TRUE]
       ELSE
         LET buf1 == [h.bs.buf EXCEPT ![sc1] = NUL]
             name == CStr(buf1, s)
             s2 == sc1 + 1
             sc2 == ScanTo(buf1, s2, h.bs.len, {NL})
         IN IF sc2 >= h.bs.len /\ ~h.eof
            THEN LET r == Refill([h.bs EXCEPT !.buf = buf1], s2, h.rs, g)
                     sc3 == ScanTo(r.bs.buf, r.sc, r.bs.len, {NL})
                 IN IF sc3 >= r.bs.len
                    THEN [h EXCEPT !.bs = r.bs, !.rs = r.rs, !.eof = r.eof,
                                   !.sc = sc3, !.brk = TRUE]
                    ELSE LET buf3 == [r.bs.buf EXCEPT ![sc3] = NUL]
                         IN StoreCol([h EXCEPT !.bs = [r.bs EXCEPT !.buf = buf3],
                                               !.rs = r.rs, !.eof = r.eof,
                                               !.sc = sc3 + 1],
                                     \* s still points where the type began
                                     \* before the refill
                                     MakeCol(name, CStr(buf3, s2)))
            ELSE IF h.eof THEN [h EXCEPT !.brk = TRUE]
            ELSE LET buf3 == [buf1 EXCEPT ![sc2] = NUL]
                 IN StoreCol([h EXCEPT !.bs.buf = buf3, !.sc = sc2 + 1],
                             MakeCol(name, CStr(buf3, s2)))

\* Lines 197-214: the decoder's locals when the loop is entered.
HeaderStart(rs, n, g) ==
    LET id == stream_readInt(rs, g.int)
        r == bstream_read(bstream_create, BLOCK, id.rs, g.chunk)
    IN [bs |-> r.bs, rs |-> r.rs, sc |-> r.bs.pos, eof |-> (r.rd = 0),
        pCol |-> 1, cols |-> [k \in 1..n |-> ZeroCol], brk |-> FALSE,
        ovf |-> FALSE]

HeaderLoopDone(h) == h.brk \/ ~(h.sc < h.bs.len)

\* The whole loop.
RECURSIVE HeaderRun(_, _)
HeaderRun(h, g) ==
    IF HeaderLoopDone(h) THEN h ELSE HeaderRun(HeaderIter(h, g), g)

(***************************************************************************)
(* The row decoder (lines 287-340).                                        *)
(***************************************************************************)
NullCell == [set |-> FALSE, v |-> <<>>]

\* The garbage that can matter to a read from rs: only a read that finds
\* something else than it expects makes anything of it.
ChunkGarbage(rs) ==
    IF rs # <<>> /\ Head(rs).t # "bytes" THEN GChunk ELSE {Garbage0}
\* atEnd: the integer is used even when the read found the stream at its end.
IntGarbage(rs, atEnd) ==
    IF rs = <<>> THEN (IF atEnd THEN GarbageInts ELSE {0})
    ELSE IF Head(rs).t # "int" THEN GarbageInts ELSE {0}
LastGarbage(rs) ==
    IF rs # <<>> /\ Head(rs).t # "blk" THEN BOOLEAN ELSE {FALSE}
ChunkByteGarbage(rs) ==
    {[g EXCEPT !.byte = b] : g \in ChunkGarbage(rs), b \in GarbageBytes}

\* *(sc - 1): the byte before sc; before the buffer it is whatever the heap
\* holds there.
ByteBefore(buf, at, g) == IF at >= 1 THEN buf[at - 1] ELSE g.byte

\* Lines 326-334 for one quote character q: strips when *s and *(sc - 1)
\* are both q.  f = [buf, s, ovf].
StripQuote(f, at, q, g) ==
    IF f.s <= BLOCK /\ f.buf[f.s] = q /\ ByteBefore(f.buf, at, g) = q
    THEN [buf |-> IF at >= 1 THEN [f.buf EXCEPT ![at - 1] = NUL] ELSE f.buf,
          s |-> f.s + 1,
          ovf |-> f.ovf \/ at < 1]
    ELSE f

\* Lines 326-336: terminate the field at sc, strip, strdup(s).
FieldText(buf, s, at, g) ==
    LET f0 == [buf |-> [buf EXCEPT ![at] = NUL], s |-> s, ovf |-> FALSE]
        f1 == StripQuote(f0, at, DQUOTE, g)
        f2 == StripQuote(f1, at, QUOTE, g)
    IN [buf |-> f2.buf, text |-> CStr(f2.buf, f2.s), ovf |-> f2.ovf]

\* ResultRows[nRow * nCols + nCol] = strdup(s); sc++ (lines 335-336).
StoreField(h, n, b, rs, e, s, at, g) ==
    LET f == FieldText(b.buf, s, at, g)
    IN [h EXCEPT !.bs = [b EXCEPT !.buf = f.buf], !.rs = rs, !.eof = e,
                 !.sc = at + 1,
                 !.cells[h.nRow * n + h.nCol] = [set |-> TRUE, v |-> f.text],
                 !.nCol = h.nCol + 1,
                 !.ovf = h.ovf \/ f.ovf]

\* The body of the inner loop (lines 307-336) for one field, on the
\* decoder's locals h = [bs, rs, sc, eof, nRow, nCol, cells, err, ovf].
RowField(h, n, g) ==
    LET s == h.sc
        sc1 == ScanTo(h.bs.buf, h.sc, h.bs.len, {TAB, NL})
    IN IF sc1 >= h.bs.len /\ ~h.eof
       THEN LET r == Refill(h.bs, s, h.rs, g)
                sc2 == ScanTo(r.bs.buf, r.sc, r.bs.len, {TAB, NL})
            IN IF sc2 >= r.bs.len
               THEN [h EXCEPT !.bs = r.bs, !.rs = r.rs, !.eof = r.eof,
                              !.sc = sc2, !.err = TRUE]
               \* s still points where the field began before the refill
               ELSE StoreField(h, n, r.bs, r.rs, r.eof, s, sc2, g)
       ELSE StoreField(h, n, h.bs, h.rs, h.eof, s, sc1, g)

\* Lines 289-303: the decoder's locals when the loops are entered.
RowsStart(rs, nc, nr, g) ==
    LET r == bstream_read(bstream_create, BLOCK, rs, g.chunk)
    IN [bs |-> r.bs, rs |-> r.rs, sc |-> r.bs.pos, eof |-> (r.rd = 0),
        nRow |-> 1, nCol |-> 1,
        cells |-> [k \in 0..((nc + 1) * (nr + 1) - 1) |-> NullCell],
        err |-> FALSE, ovf |-> FALSE]

\* The two for-loops (lines 305-306): the outer loop is left when its
\* condition fails; the inner condition failing starts the next row.
RowsLoopDone(h, nr) == h.err \/ ~(h.nRow <= nr /\ ~h.eof)

RowStep(h, nc, g) ==
    IF h.nCol <= nc /\ ~h.eof THEN RowField(h, nc, g)
    ELSE [h EXCEPT !.nRow = h.nRow + 1, !.nCol = 1]

\* The two loops as a whole.
RECURSIVE RowsRun(_, _, _, _)
RowsRun(h, nc, nr, g) ==
    IF RowsLoopDone(h, nr) THEN h ELSE RowsRun(RowStep(h, nc, g), nc, nr, g)

(***************************************************************************)
(* The inputs: what the server sends, and the statement that is prepared.  *)
(***************************************************************************)
H1 == <<"a", ",", "i", "n", "t", NL>>
H2 == <<"a", "b", ",", "i", "n", "t", NL, "c", ",", "d", "b", "l", NL>>
R1 == <<"x", NL>>
R2 == <<"1", TAB, "A", NL, "2", TAB, DQUOTE, "B", ",", "J", DQUOTE, NL>>
RTab == <<DQUOTE, "a", TAB, "b", DQUOTE, NL>>
RNl == <<DQUOTE, "a", NL, "b", DQUOTE, NL>>
RShort == <<"a", NL, "b", NL>>
RLong == <<"a", TAB, "b", TAB, "c", NL>>
RPlain == <<"1", TAB, "A", NL, "2", TAB, "B", NL>>

FieldChars == {"x", DQUOTE, QUOTE}
RECURSIVE Fields(_)
Fields(n) ==
    IF n = 0 THEN {<<>>}
    ELSE Fields(n - 1) \cup {<<c>> \o f : c \in FieldChars, f \in {f \in Fields(n - 1) : Len(f) = n - 1}}

CutSets(p) == {c \in SUBSET (1..(Len(p) - 1)) : Cardinality(c) <= MaxCuts}

SetMin(S) == CHOOSE x \in S : \A y \in S : x <= y

\* The payload p as the chunks successive reads deliver, cut after the
\* positions in cuts.
RECURSIVE Chunks(_, _)
Chunks(p, cuts) ==
    IF cuts = {} THEN <<BytesTok(p)>>
    ELSE LET c == SetMin(cuts)
         IN <<BytesTok(SubSeq(p, 1, c))>>
            \o Chunks(SubSeq(p, c + 1, Len(p)), {x - c : x \in cuts \ {c}})

HeaderOf(n) == IF n = 1 THEN H1 ELSE H2

\* One-column headers, one for each type name of the table and for some
\* names that are not in it.
TypeNames ==
    {sql_types[k].name : k \in 1..Len(sql_types)}
    \cup {<<"x", "y">>, <<"i", "n">>, <<"i", "n", "t", "s">>, <<>>}
HType(t) == <<"c", COMMA>> \o t \o <<NL>>

ErrorResp(nblk) ==
    [kind |-> "error", nblk |-> nblk, nCols |-> 0, hdr |-> <<>>, hcuts |-> {},
     nRows |-> 0, rows |-> <<>>, rcuts |-> {}]
\* A result-header frame whose table frame is an error frame.
HeaderErrorResp ==
    [kind |-> "headererror", nblk |-> 2, nCols |-> 1, hdr |-> H1, hcuts |-> {},
     nRows |-> 0, rows |-> <<>>, rcuts |-> {}]
UpdateResp ==
    [kind |-> "update", nblk |-> 0, nCols |-> 0, hdr |-> <<>>, hcuts |-> {},
     nRows |-> 0, rows |-> <<>>, rcuts |-> {}]
\* A frame whose type tag is none of Q_END, Q_RESULT, Q_TABLE, Q_UPDATE, with
\* status 1 and a payload of nblk blocks.
UnknownTags == {9, 0 - 5}
UnknownResp(tag, nblk) ==
    [kind |-> "unknown", nblk |-> nblk, nCols |-> 0, hdr |-> <<>>, hcuts |-> {},
     nRows |-> 0, rows |-> <<>>, rcuts |-> {}, tag |-> tag]
ResultResp(nc, hdr, hcuts, nr, rows, rcuts) ==
    [kind |-> "result", nblk |-> 0, nCols |-> nc, hdr |-> hdr, hcuts |-> hcuts,
     nRows |-> nr, rows |-> rows, rcuts |-> rcuts]

RowCases ==
    {[nCols |-> 1, nRows |-> 1, rows |-> f \o <<NL>>] : f \in Fields(MaxFieldLen)}
    \cup {[nCols |-> 2, nRows |-> 2, rows |-> R2],
          [nCols |-> 2, nRows |-> 2, rows |-> RPlain],
          [nCols |-> 1, nRows |-> 1, rows |-> RTab],
          [nCols |-> 1, nRows |-> 1, rows |-> RNl],
          [nCols |-> 2, nRows |-> 1, rows |-> RShort],
          [nCols |-> 2, nRows |-> 1, rows |-> RLong],
          [nCols |-> 2, nRows |-> 2, rows |-> RShort]}

\* A header frame that announces one column and carries two records.
OverfullResp == ResultResp(1, H2, {}, 1, R1, {})

SmallResponses ==
    {ErrorResp(1), ErrorResp(2), UpdateResp, HeaderErrorResp,
     ResultResp(1, H1, {}, 1, R1, {})}

TypeResponses == {ResultResp(1, HType(t), {}, 1, R1, {}) : t \in TypeNames}

Responses ==
    SmallResponses
    \cup TypeResponses
    \cup {UnknownResp(t, n) : t \in UnknownTags, n \in 1..2}
    \cup {OverfullResp}
    \cup {ResultResp(1, H1, c, 1, R1, {}) : c \in CutSets(H1)}
    \cup {ResultResp(2, H2, c, 2, R2, {}) : c \in CutSets(H2)}
    \cup UNION {{ResultResp(rc.nCols, HeaderOf(rc.nCols), {}, rc.nRows, rc.rows, c) :
                   c \in CutSets(rc.rows)} : rc \in RowCases}

\* The tokens of one response, frame by frame.
Tokens(r) ==
    IF r.kind = "error"
    THEN <<IntTok(Q_RESULT), IntTok(0 - 1)>> \o [k \in 1..r.nblk |-> BlkTok(k = r.nblk)]
    ELSE IF r.kind = "update"
    THEN <<IntTok(Q_UPDATE), IntTok(1)>>
    ELSE IF r.kind = "unknown"
    THEN <<IntTok(r.tag), IntTok(1)>> \o [k \in 1..r.nblk |-> BlkTok(k = r.nblk)]
    ELSE IF r.kind = "headererror"
    THEN <<IntTok(Q_RESULT), IntTok(r.nCols), IntTok(7)>> \o Chunks(r.hdr, r.hcuts)
         \o <<IntTok(Q_TABLE), IntTok(0 - 1)>> \o [k \in 1..r.nblk |-> BlkTok(k = r.nblk)]
    ELSE <<IntTok(Q_RESULT), IntTok(r.nCols), IntTok(7)>> \o Chunks(r.hdr, r.hcuts)
         \o <<IntTok(Q_TABLE), IntTok(r.nRows)>> \o Chunks(r.rows, r.rcuts)

RECURSIVE AllTokens(_)
AllTokens(resps) ==
    IF resps = <<>> THEN <<>> ELSE Tokens(Head(resps)) \o AllTokens(Tail(resps))

Bound(v) == [bound |-> TRUE, v |-> v]
Unbound == [bound |-> FALSE, v |-> <<>>]

DefaultStmt == [Query |-> <<"s">>, bindParams |-> <<>>]

Templates ==
    {<<"s">>, <<MARKER>>, <<"s", MARKER>>, <<"s", MARKER, "w">>,
     <<MARKER, "s", MARKER>>, <<QUOTE, MARKER, QUOTE, MARKER>>}
Values == {<<"v">>, <<"a", QUOTE, "b">>, <<>>}
ParamLists ==
    {<<>>} \cup {<<Bound(v)>> : v \in Values}
    \cup {<<Bound(v), Bound(w)>> : v \in Values, w \in Values}
    \cup {<<Unbound>>, <<Bound(<<"v">>), Unbound>>}
StmtCases == {[Query |-> t, bindParams |-> p] : t \in Templates, p \in ParamLists}

\* resps: the responses; keep: how many tokens arrive before the stream
\* ends; stmt: what the application prepares.
InputsOf(resps, st) ==
    {[resps |-> resps, keep |-> k, stmt |-> st] : k \in 0..Len(AllTokens(resps))}

Inputs ==
    UNION {InputsOf(<<r>>, DefaultStmt) : r \in Responses}
    \cup UNION {InputsOf(<<r1, r2>>, DefaultStmt) :
                  r1 \in SmallResponses, r2 \in SmallResponses}
    \cup {[resps |-> <<UpdateResp, UpdateResp>>, keep |-> 4, stmt |-> st] : st \in StmtCases}

InputStream(in) ==
    LET all == AllTokens(in.resps)
    IN SubSeq(all, 1, Min(in.keep, Len(all)))

NullCols == [alloc |-> FALSE, cols |-> <<>>]
NullRows == [alloc |-> FALSE, cells |-> <<>>]

(***************************************************************************)
(* The embedded Python binding: clients, locks and the threads that call   *)
(* monetdb_sql, monetdb_create and monetdb_insert.                         *)
(***************************************************************************)
MaxThreads == 2     \* threads of the interpreter
MaxOps == 3         \* calls of the binding, by all threads together

Threads == 1..MaxThreads
NoThread == 0

MAL_SUCCEED == "MAL_SUCCEED"
monetdb_default_client == "monetdb_default_client"
monetdb_default_query_lock == "monetdb_default_query_lock"

\* What the application can pass as conn: nothing, a connection object made
\* by monetdb_client, or some other object.
NULL == [kind |-> "NULL"]
ClientObject == [kind |-> "PyClientObject", cntxt |-> "conn_cntxt",
                 query_lock |-> "conn_query_lock"]
OtherObject == [kind |-> "other"]
ClientArgs == {NULL, ClientObject, OtherObject}

PyClient_CheckExact(o) == o.kind = "PyClientObject"

LockIds == {monetdb_default_query_lock, ClientObject.query_lock}

Functions == {"monetdb_sql", "monetdb_create", "monetdb_insert"}

\* A lookup that takes the context of the connection object and leaves the
\* lock at the default client's.
PyClientObject_GetClient_DefaultLock(cl) ==
    IF cl # NULL /\ ~PyClient_CheckExact(cl)
    THEN [msg |-> "conn must be a connection object", c |-> monetdb_default_client,
          query_lock |-> monetdb_default_query_lock]
    ELSE [msg |-> MAL_SUCCEED,
          c |-> IF cl # NULL THEN cl.cntxt ELSE monetdb_default_client,
          query_lock |-> monetdb_default_query_lock]

\* PyClientObject_GetClient(client, &c, &query_lock): the returned message
\* and what it stored through the two pointers.
PyClientObject_GetClient(cl) ==
    IF cl # NULL /\ ~PyClient_CheckExact(cl)
    THEN [msg |-> "conn must be a connection object", c |-> monetdb_default_client,
          query_lock |-> monetdb_default_query_lock]
    ELSE [msg |-> MAL_SUCCEED,
          c |-> IF cl # NULL THEN cl.cntxt ELSE monetdb_default_client,
          query_lock |-> IF cl # NULL THEN cl.query_lock
                         ELSE monetdb_default_query_lock]

\* After monetdb_init: no thread is in a call, no lock is held.
PyStart ==
    /\ tpc = [t \in Threads |-> "idle"]
    /\ fn = [t \in Threads |-> "none"]
    /\ client = [t \in Threads |-> NULL]
    /\ cntxt = [t \in Threads |-> UNINIT]
    /\ query_lock = [t \in Threads |-> UNINIT]
    /\ ncalls = 0
    /\ locks = [l \in LockIds |-> NoThread]
    /\ gil = NoThread

(***************************************************************************)
(* stethoscope: the wthread list and the initial state of main.            *)
(***************************************************************************)
MaxHosts == 2       \* servers mapi_resolve can find
MaxSignals == 2     \* signals delivered during a session

Hosts == 1..MaxHosts

\* A pointer to a wthread is its index; NULL_PTR is the null pointer.
NULL_PTR == 0

\* A wthread that was not allocated yet, and one fresh from malloc: s and
\* next hold whatever the memory held (UNINIT, UNINIT_PTR).
UNINIT_PTR == 0 - 1
NoWthread == [mem |-> "none", s |-> UNINIT, next |-> UNINIT_PTR]
MallocWthread == [mem |-> "live", s |-> UNINIT, next |-> UNINIT_PTR]

\* main after the handlers are registered (lines 492-502).
StethStart ==
    /\ mpc = "mapi_resolve"
    /\ alts = 0
    /\ thds = NULL_PTR
    /\ walk = NULL_PTR
    /\ wthreads = [h \in Hosts |-> NoWthread]
    /\ wpc = [h \in Hosts |-> "none"]
    /\ tick = [h \in Hosts |-> 0]
    /\ sigs = <<>>
    /\ crashed = FALSE
    /\ ub = FALSE
    /\ cleaned = [h \in Hosts |-> FALSE]

(***************************************************************************)
(* The row grid in C's int: the element count of lines 295-296 and the     *)
(* index of line 335, for counts as large as a frame can announce.         *)
(***************************************************************************)
MaxStores == 2      \* cells stored in one behaviour

INT_MAX == 2147483647

\* s + t in int, for s in int and 0 <= t <= INT_MAX: the sum, or on overflow
\* the sum less 2^32.
AddInt(s, t) ==
    IF s > INT_MAX - t
    THEN [v |-> ((s - INT_MAX) - 1) + ((t - INT_MAX) - 1), ovf |-> TRUE]
    ELSE [v |-> s + t, ovf |-> FALSE]

\* a * b in int, for 0 <= a, b <= 2^16: the product, or on overflow the
\* product reduced modulo 2^32 into the range of int.
MulInt(a, b) ==
    LET bh == b \div 256
        bl == b % 256
        xr == (a * bh) % 16777216
        hi == IF xr >= 8388608 THEN (xr - 16777216) * 256 ELSE xr * 256
    IN [v |-> AddInt(hi, a * bl).v,
        ovf |-> b # 0 /\ a > INT_MAX \div b]

\* (nCols + 1) * (nRows + 1), lines 295-296.
AllocCount(nc, nr) == MulInt(nc + 1, nr + 1)

\* nRow * nCols + nCol, line 335.
GridIndex(row, nc, col) ==
    LET m == MulInt(row, nc)
        a == AddInt(m.v, col)
    IN [v |-> a.v, ovf |-> m.ovf \/ a.ovf]

\* The counts a table frame and a header frame can announce, and the cells
\* looked at: the first and the last of the rows and of the columns.
GridDims == {1, 2, 3, 46339, 46340, 65535}
GridCells(nc, nr) == {[nRow |-> r, nCol |-> c] : r \in {1, nr}, c \in {1, nc}}

GridStart ==
    /\ gpc = "frame"
    /\ gnCols = 0
    /\ gnRows = 0
    /\ gcount = 0
    /\ gstored = {}

(***************************************************************************)
(* The state machine.                                                      *)
(***************************************************************************)
Snapshot ==
    [State |-> State, Mws |-> Mws, Mrs |-> Mrs, ResultCols |-> ResultCols,
     ResultRows |-> ResultRows]

\* spin: the parity of the number of turns of the drain loop that read nothing.
\* used: the markers the call substituted, each with the index of its value.
NoHist == [frame |-> <<>>, ovf |-> FALSE, spin |-> 0, used |-> <<>>]

\* The statement, the streams and the locals before the first call.
StmtInit ==
    /\ State = "INIT"
    /\ Query = <<>>
    /\ bindParams = <<>>
    /\ ResultCols = NullCols
    /\ ResultRows = NullRows
    /\ nrCols = 0
    /\ nrRows = 0
    /\ errors = <<>>
    /\ Mws = <<>>
    /\ Mrs = InputStream(input)
    /\ pc = "idle"
    /\ ret = "none"
    /\ site = 0
    /\ type = 0
    /\ status = 0
    /\ nCols = 0
    /\ nRows = 0
    /\ nRow = 0
    /\ nCol = 0
    /\ pCol = 0
    /\ bs = bstream_create
    /\ sc = 0
    /\ eof = FALSE
    /\ calls = 0
    /\ entry = [State |-> "INIT", Mws |-> <<>>, Mrs |-> InputStream(input),
                ResultCols |-> NullCols, ResultRows |-> NullRows]
    /\ hist = NoHist

Init ==
    /\ input \in Inputs
    /\ StmtInit
    /\ PyStart
    /\ StethStart
    /\ GridStart

stmtVars == <<State, Query, bindParams, ResultCols, ResultRows, nrCols, nrRows>>
decodeVars == <<nCols, nRows, nRow, nCol, pCol, bs, sc, eof>>

\* The application prepares the statement (SQLPrepare, not part of this
\* file): results of an earlier execution are released.
Prepare ==
    /\ pc = "idle"
    /\ State \in {"INIT", "EXECUTED"}
    /\ calls < MaxCalls
    /\ State' = "PREPARED"
    /\ Query' = input.stmt.Query
    /\ bindParams' = input.stmt.bindParams
    /\ ResultCols' = NullCols
    /\ ResultRows' = NullRows
    /\ UNCHANGED <<input, nrCols, nrRows, errors, Mws, Mrs, pc, ret, site, type,
                   status, calls, entry, hist>>
    /\ UNCHANGED decodeVars
    /\ UNCHANGED notExecVars

\* Lines 100-105: the locals of a call that starts.
EnterCall ==
    /\ calls' = calls + 1
    /\ entry' = Snapshot
    /\ type' = 0
    /\ status' = 0
    /\ nCols' = 0
    /\ nRows' = 0
    /\ nRow' = 0
    /\ nCol' = 0

\* A state check that comes after the query has been sent.
ExecuteInvalidState_AfterSend ==
    /\ pc = "idle"
    /\ calls < MaxCalls
    /\ State # "PREPARED"
    /\ EnterCall
    /\ errors' = <<"24000">>
    /\ ret' = SQL_ERROR
    /\ hist' = NoHist
    /\ Mws' = Mws \o <<Query, <<";", NL>>>>
    /\ UNCHANGED <<input, Mrs, pc, site, pCol, bs, sc, eof>>
    /\ UNCHANGED stmtVars
    /\ UNCHANGED notExecVars

\* Lines 111-118: the statement is not PREPARED.
ExecuteInvalidState ==
    /\ pc = "idle"
    /\ calls < MaxCalls
    /\ State # "PREPARED"
    /\ EnterCall
    /\ errors' = <<"24000">>
    /\ ret' = SQL_ERROR
    /\ hist' = NoHist
    /\ UNCHANGED <<input, Mws, Mrs, pc, site, pCol, bs, sc, eof>>
    /\ UNCHANGED stmtVars
    /\ UNCHANGED notExecVars

\* Lines 120-123 in a build with assertions: a PREPARED statement that still
\* carries results aborts the process.
ExecuteAssertFail ==
    /\ pc = "idle"
    /\ calls < MaxCalls
    /\ State = "PREPARED"
    /\ ResultCols.alloc \/ ResultRows.alloc
    /\ EnterCall
    /\ errors' = <<>>
    /\ pc' = "aborted"
    /\ hist' = NoHist
    /\ UNCHANGED <<input, Mws, Mrs, ret, site, pCol, bs, sc, eof>>
    /\ UNCHANGED stmtVars
    /\ UNCHANGED notExecVars

\* Lines 111-191: substitute the parameters, send the query, reset the result
\* meta data and go and read the first frame.  A write outside allocated
\* memory may also end the process.
ExecuteSend ==
    /\ pc = "idle"
    /\ calls < MaxCalls
    /\ State = "PREPARED"
    /\ EnterCall
    /\ \E g \in GBytePtr :
         LET sub == Substitute(Query, bindParams, g)
         IN \E crash \in {FALSE} \cup (IF sub.ovf THEN {TRUE} ELSE {}) :
              /\ hist' = [NoHist EXCEPT !.ovf = sub.ovf, !.frame = Mrs,
                                        !.used = sub.used]
              /\ IF crash
                 THEN /\ pc' = "crashed"
                      /\ UNCHANGED <<Mws, nrCols, nrRows, site>>
                 ELSE /\ pc' = "next_result"
                      /\ site' = 1
                      /\ Mws' = Mws \o <<sub.text, <<";", NL>>>>
                      /\ nrCols' = 0
                      /\ nrRows' = 0
    /\ errors' = <<>>
    /\ UNCHANGED <<input, State, Query, bindParams, ResultCols, ResultRows,
                   Mrs, ret, pCol, bs, sc, eof>>
    /\ UNCHANGED notExecVars

\* `return SQL_ERROR' of SQLExecute: nothing else is touched on the way out.
ReturnError ==
    /\ ret' = SQL_ERROR
    /\ pc' = "idle"

\* A frame reader that stops after the first block of the error payload.
DrainMore_FirstBlockOnly(last) == FALSE

\* while (!last): the loop of lines 64-66 goes on reading.
DrainMore(last) == ~last

\* next_result up to its first bs_read_next (lines 50-62).  g1, g2: what the
\* two integers read as when the stream does not hold integers there.
NextResult ==
    /\ pc = "next_result"
    /\ \E g1 \in IntGarbage(Mrs, FALSE),
          g2 \in IntGarbage(stream_readInt(Mrs, 0).rs, TRUE),
          gl \in LastGarbage(stream_readInt(stream_readInt(Mrs, 0).rs, 0).rs) :
         LET t == stream_readInt(Mrs, g1)
             st == stream_readInt(t.rs, g2)
             b == bs_read_next(st.rs, FALSE, gl)
         IN IF ~t.ok \/ t.v = Q_END
            THEN /\ errors' = Append(errors, "08S01")
                 /\ type' = IF t.ok THEN t.v ELSE type
                 /\ status' = 0 - 1        \* the value of SQL_ERROR
                 /\ Mrs' = t.rs
                 /\ ReturnError
            ELSE /\ type' = t.v
                 /\ IF t.v < 0 \/ st.v < 0
                    THEN /\ Mrs' = b.rs
                         /\ status' = 0 - 1
                         /\ IF DrainMore(b.last)
                            THEN /\ pc' = "drain"
                                 /\ UNCHANGED <<ret, errors>>
                            ELSE /\ errors' = Append(errors, "HY000")
                                 /\ ReturnError
                    ELSE /\ Mrs' = st.rs
                         /\ status' = st.v
                         /\ pc' = IF site = 1 THEN "header_frame" ELSE "table_frame"
                         /\ UNCHANGED <<ret, errors>>
    /\ UNCHANGED <<input, Mws, site, calls, entry, hist>>
    /\ UNCHANGED stmtVars
    /\ UNCHANGED decodeVars
    /\ UNCHANGED notExecVars

\* One more turn of the loop of lines 64-66.
Drain ==
    /\ pc = "drain"
    /\ \E gl \in LastGarbage(Mrs) :
         LET b == bs_read_next(Mrs, FALSE, gl)
         IN /\ Mrs' = b.rs
            /\ IF DrainMore(b.last)
               THEN UNCHANGED <<pc, ret, errors>>
               ELSE /\ errors' = Append(errors, "HY000")
                    /\ ReturnError
            /\ hist' = IF b.rs = Mrs /\ DrainMore(b.last)
                       THEN [hist EXCEPT !.spin = 1 - hist.spin]
                       ELSE hist
    /\ UNCHANGED <<input, Mws, site, type, status, calls, entry>>
    /\ UNCHANGED stmtVars
    /\ UNCHANGED decodeVars
    /\ UNCHANGED notExecVars

\* Line 195 holds: lines 196-214.
HeaderBegin ==
    /\ pc = "header_frame"
    /\ type = Q_RESULT /\ status > 0
    /\ \E g \in ChunkGarbage(stream_readInt(Mrs, 0).rs) :
         LET h == HeaderStart(Mrs, status, g)
         IN /\ bs' = h.bs
            /\ Mrs' = h.rs
            /\ sc' = h.sc
            /\ eof' = h.eof
            /\ pCol' = h.pCol
            /\ ResultCols' = [alloc |-> TRUE, cols |-> h.cols]
    /\ nCols' = status
    /\ nrCols' = status
    /\ pc' = "header"
    /\ UNCHANGED <<input, State, Query, bindParams, ResultRows, nrRows, errors,
                   Mws, ret, site, type, status, nRows, nRow, nCol, calls,
                   entry, hist>>
    /\ UNCHANGED notExecVars

\* Line 195 does not hold.
HeaderSkip ==
    /\ pc = "header_frame"
    /\ ~(type = Q_RESULT /\ status > 0)
    /\ pc' = "table_frame"
    /\ UNCHANGED <<input, errors, Mws, Mrs, ret, site, type, status, calls,
                   entry, hist>>
    /\ UNCHANGED stmtVars
    /\ UNCHANGED decodeVars
    /\ UNCHANGED notExecVars

HeaderLocals ==
    [bs |-> bs, rs |-> Mrs, sc |-> sc, eof |-> eof, pCol |-> pCol,
     cols |-> ResultCols.cols, brk |-> FALSE, ovf |-> FALSE]

\* One iteration of the loop of lines 216-280.
HeaderRecord ==
    /\ pc = "header"
    /\ ~HeaderLoopDone(HeaderLocals)
    /\ \E g \in ChunkGarbage(Mrs) :
         LET h == HeaderIter(HeaderLocals, g)
         IN \E crash \in {FALSE} \cup (IF h.ovf THEN {TRUE} ELSE {}) :
              /\ bs' = h.bs
              /\ Mrs' = h.rs
              /\ sc' = h.sc
              /\ eof' = h.eof
              /\ pCol' = h.pCol
              /\ ResultCols' = [ResultCols EXCEPT !.cols = h.cols]
              /\ hist' = [hist EXCEPT !.ovf = hist.ovf \/ h.ovf]
              /\ pc' = IF crash THEN "crashed"
                       ELSE IF h.brk THEN "header_end" ELSE "header"
    /\ UNCHANGED <<input, State, Query, bindParams, ResultRows, nrCols, nrRows,
                   errors, Mws, ret, site, type, status, nCols, nRows, nRow,
                   nCol, calls, entry>>
    /\ UNCHANGED notExecVars

\* The loop is left (its condition fails, or a break): lines 281-283.
HeaderEnd ==
    /\ \/ pc = "header" /\ HeaderLoopDone(HeaderLocals)
       \/ pc = "header_end"
    /\ pc' = "next_result"
    /\ site' = 2
    /\ hist' = [hist EXCEPT !.frame = Mrs]
    /\ UNCHANGED <<input, errors, Mws, Mrs, ret, type, status, calls, entry>>
    /\ UNCHANGED stmtVars
    /\ UNCHANGED decodeVars
    /\ UNCHANGED notExecVars

\* Line 287 holds: lines 288-303.
RowsBegin ==
    /\ pc = "table_frame"
    /\ type = Q_TABLE /\ status > 0
    /\ \E g \in ChunkGarbage(Mrs) :
         LET h == RowsStart(Mrs, nCols, status, g)
         IN /\ bs' = h.bs
            /\ Mrs' = h.rs
            /\ sc' = h.sc
            /\ eof' = h.eof
            /\ nRow' = h.nRow
            /\ nCol' = h.nCol
            /\ ResultRows' = [alloc |-> TRUE, cells |-> h.cells]
    /\ nRows' = status
    /\ nrRows' = status
    /\ pc' = "rows"
    /\ UNCHANGED <<input, State, Query, bindParams, ResultCols, nrCols, errors,
                   Mws, ret, site, type, status, nCols, pCol, calls, entry, hist>>
    /\ UNCHANGED notExecVars

\* A success path that leaves out the assignment of line 346.
NoRows_KeepsPrepared ==
    /\ pc = "table_frame"
    /\ ~(type = Q_TABLE /\ status > 0)
    /\ IF Q_UPDATE # 0
       THEN /\ nrRows' = nRows
            /\ ResultRows' = NullRows
       ELSE UNCHANGED <<nrRows, ResultRows>>
    /\ ret' = SQL_SUCCESS
    /\ pc' = "idle"
    /\ UNCHANGED <<input, State, Query, bindParams, ResultCols, nrCols, errors,
                   Mws, Mrs, site, type, status, calls, entry, hist>>
    /\ UNCHANGED decodeVars
    /\ UNCHANGED notExecVars

\* Line 287 does not hold: lines 341-347 (Q_UPDATE is a non-zero constant).
NoRows ==
    /\ pc = "table_frame"
    /\ ~(type = Q_TABLE /\ status > 0)
    /\ IF Q_UPDATE # 0
       THEN /\ nrRows' = nRows
            /\ ResultRows' = NullRows
       ELSE UNCHANGED <<nrRows, ResultRows>>
    /\ State' = "EXECUTED"
    /\ ret' = SQL_SUCCESS
    /\ pc' = "idle"
    /\ UNCHANGED <<input, Query, bindParams, ResultCols, nrCols, errors, Mws,
                   Mrs, site, type, status, calls, entry, hist>>
    /\ UNCHANGED decodeVars
    /\ UNCHANGED notExecVars

RowLocals ==
    [bs |-> bs, rs |-> Mrs, sc |-> sc, eof |-> eof, nRow |-> nRow,
     nCol |-> nCol, cells |-> ResultRows.cells, err |-> FALSE, ovf |-> FALSE]

\* One turn of the loops of lines 305-338: a field, or the step to the next
\* row; line 323 returns from inside.
RowsStep ==
    /\ pc = "rows"
    /\ ~RowsLoopDone(RowLocals, nRows)
    /\ \E g \in ChunkByteGarbage(Mrs) :
         LET h == RowStep(RowLocals, nCols, g)
         IN \E crash \in {FALSE} \cup (IF h.ovf THEN {TRUE} ELSE {}) :
              /\ bs' = h.bs
              /\ Mrs' = h.rs
              /\ sc' = h.sc
              /\ eof' = h.eof
              /\ nRow' = h.nRow
              /\ nCol' = h.nCol
              /\ ResultRows' = [ResultRows EXCEPT !.cells = h.cells]
              /\ hist' = [hist EXCEPT !.ovf = hist.ovf \/ h.ovf]
              /\ IF crash THEN /\ pc' = "crashed"
                               /\ UNCHANGED ret
                 ELSE IF h.err THEN ReturnError
                 ELSE UNCHANGED <<pc, ret>>
    /\ UNCHANGED <<input, State, Query, bindParams, ResultCols, nrCols, nrRows,
                   errors, Mws, site, type, status, nCols, nRows, pCol, calls,
                   entry>>
    /\ UNCHANGED notExecVars

\* The loops are left: lines 340, 346-347.
RowsEnd ==
    /\ pc = "rows"
    /\ RowsLoopDone(RowLocals, nRows)
    /\ State' = "EXECUTED"
    /\ ret' = SQL_SUCCESS
    /\ pc' = "idle"
    /\ UNCHANGED <<input, Query, bindParams, ResultCols, ResultRows, nrCols,
                   nrRows, errors, Mws, Mrs, site, type, status, calls, entry,
                   hist>>
    /\ UNCHANGED decodeVars
    /\ UNCHANGED notExecVars

Next ==
    \/ Prepare
    \/ ExecuteInvalidState
    \/ ExecuteAssertFail
    \/ ExecuteSend
    \/ NextResult
    \/ Drain
    \/ HeaderBegin
    \/ HeaderSkip
    \/ HeaderRecord
    \/ HeaderEnd
    \/ RowsBegin
    \/ NoRows
    \/ RowsStep
    \/ RowsEnd

Spec == Init /\ [][Next]_vars

\* The steps of a call that has started: SQLExecute runs them one after the
\* other on its thread, so a call that can take a step takes it.
CallStep ==
    \/ NextResult
    \/ Drain
    \/ HeaderBegin
    \/ HeaderSkip
    \/ HeaderRecord
    \/ HeaderEnd
    \/ RowsBegin
    \/ NoRows
    \/ RowsStep
    \/ RowsEnd

\* The same program on the inputs that end the stream inside an error
\* payload, a header payload or a row payload.
LiveInputs ==
    UNION {InputsOf(<<r>>, DefaultStmt) :
             r \in SmallResponses
                   \cup {ResultResp(1, H1, c, 1, R1, {}) : c \in CutSets(H1)}
                   \cup {ResultResp(2, H2, {}, 2, R2, c) : c \in CutSets(R2)}}

FairInit == Init /\ input \in LiveInputs

FairSpec == FairInit /\ [][Next]_vars /\ WF_vars(CallStep)

(***************************************************************************)
(* The embedded Python binding (specification PySpec).  A thread runs the  *)
(* C code of a call holding the interpreter lock, which it gives up        *)
(* between Py_BEGIN_ALLOW_THREADS and Py_END_ALLOW_THREADS.                *)
(***************************************************************************)
NoInput == [resps |-> <<>>, keep |-> 0, stmt |-> DefaultStmt]

PyInit ==
    /\ input = NoInput
    /\ StmtInit
    /\ PyStart
    /\ StethStart
    /\ GridStart

\* `return' to the interpreter: the call is over and its locals are gone.
PyLeave(t) ==
    /\ tpc' = [tpc EXCEPT ![t] = "idle"]
    /\ gil' = NoThread
    /\ UNCHANGED ncalls
    /\ fn' = [fn EXCEPT ![t] = "none"]
    /\ client' = [client EXCEPT ![t] = NULL]
    /\ cntxt' = [cntxt EXCEPT ![t] = UNINIT]
    /\ query_lock' = [query_lock EXCEPT ![t] = UNINIT]

\* The call goes on at p with the locals c and query_lock as given.
PyGoOn(t, p, c, l) ==
    /\ tpc' = [tpc EXCEPT ![t] = p]
    /\ cntxt' = [cntxt EXCEPT ![t] = c]
    /\ query_lock' = [query_lock EXCEPT ![t] = l]
    /\ UNCHANGED <<fn, client, ncalls, gil>>

\* The interpreter calls a function of the binding; the function's locals
\* c and query_lock are as declared (initialised in monetdb_sql only).
PyEnter(t) ==
    /\ tpc[t] = "idle"
    /\ ncalls < MaxOps
    /\ ncalls' = ncalls + 1
    /\ gil = NoThread
    /\ gil' = t
    /\ \E f \in Functions, cl \in ClientArgs :
         /\ fn' = [fn EXCEPT ![t] = f]
         /\ client' = [client EXCEPT ![t] = cl]
         /\ tpc' = [tpc EXCEPT ![t] = f]
         /\ cntxt' = [cntxt EXCEPT ![t] =
                        IF f = "monetdb_sql" THEN monetdb_default_client ELSE UNINIT]
         /\ query_lock' = [query_lock EXCEPT ![t] =
                             IF f = "monetdb_sql" THEN monetdb_default_query_lock
                             ELSE UNINIT]
    /\ UNCHANGED locks
    /\ UNCHANGED notPyVars

\* monetdb_sql up to the query (lines 81-112).  parsed: the arguments were
\* accepted and the query string was allocated.
monetdb_sql(t) ==
    /\ tpc[t] = "monetdb_sql"
    /\ \E parsed \in BOOLEAN :
         LET r == IF client[t] # NULL THEN PyClientObject_GetClient(client[t])
                  ELSE [msg |-> MAL_SUCCEED, c |-> cntxt[t],
                        query_lock |-> query_lock[t]]
         IN IF ~parsed \/ r.msg # MAL_SUCCEED
            THEN PyLeave(t)
            ELSE PyGoOn(t, "allow_threads", r.c, r.query_lock)
    /\ UNCHANGED locks
    /\ UNCHANGED notPyVars

\* monetdb_create up to its call of monetdblite_insert (lines 169-205).
monetdb_create(t) ==
    /\ tpc[t] = "monetdb_create"
    /\ \E accepted \in BOOLEAN :
         IF accepted
         THEN PyGoOn(t, "monetdblite_insert", cntxt[t], query_lock[t])
         ELSE PyLeave(t)
    /\ UNCHANGED locks
    /\ UNCHANGED notPyVars

\* monetdb_insert up to its call of monetdb_get_columns (lines 320-331).
monetdb_insert(t) ==
    /\ tpc[t] = "monetdb_insert"
    /\ \E parsed \in BOOLEAN :
         LET r == PyClientObject_GetClient(client[t])
         IN IF ~parsed \/ r.msg # MAL_SUCCEED
            THEN PyLeave(t)
            ELSE PyGoOn(t, "monetdb_get_columns", r.c, r.query_lock)
    /\ UNCHANGED locks
    /\ UNCHANGED notPyVars

\* monetdb_get_columns returns (lines 332-336): with an error the call is
\* over, else monetdblite_insert is called.
monetdb_get_columns(t) ==
    /\ tpc[t] = "monetdb_get_columns"
    /\ \E found \in BOOLEAN :
         IF found
         THEN PyGoOn(t, "monetdblite_insert", cntxt[t], query_lock[t])
         ELSE PyLeave(t)
    /\ UNCHANGED locks
    /\ UNCHANGED notPyVars

\* monetdblite_insert up to the append (lines 227-282).  converted: the
\* values were turned into columns; every failure goes to cleanup.
monetdblite_insert(t) ==
    /\ tpc[t] = "monetdblite_insert"
    /\ \E converted \in BOOLEAN :
         LET r == PyClientObject_GetClient(client[t])
         IN IF r.msg # MAL_SUCCEED \/ ~converted
            THEN PyLeave(t)
            ELSE PyGoOn(t, "allow_threads", r.c, r.query_lock)
    /\ UNCHANGED locks
    /\ UNCHANGED notPyVars

\* Lines 114 and 283: the interpreter lock is given up.
Py_BEGIN_ALLOW_THREADS(t) ==
    /\ tpc[t] = "allow_threads"
    /\ gil' = NoThread
    /\ tpc' = [tpc EXCEPT ![t] = "MT_lock_set"]
    /\ UNCHANGED <<fn, client, cntxt, query_lock, ncalls, locks>>
    /\ UNCHANGED notPyVars

\* Lines 115 and 284: MT_lock_set(query_lock) returns once the lock is free;
\* the thread then calls monetdb_query or monetdb_append with c.
MT_lock_set(t) ==
    /\ tpc[t] = "MT_lock_set"
    /\ locks[query_lock[t]] = NoThread
    /\ locks' = [locks EXCEPT ![query_lock[t]] = t]
    /\ tpc' = [tpc EXCEPT ![t] = IF fn[t] = "monetdb_sql" THEN "monetdb_query"
                                  ELSE "monetdb_append"]
    /\ UNCHANGED <<fn, client, cntxt, query_lock, ncalls, gil>>
    /\ UNCHANGED notPyVars

\* monetdb_query (line 116) or monetdb_append (line 289) returns, with an
\* error or without.
EngineReturn(t) ==
    /\ tpc[t] \in {"monetdb_query", "monetdb_append"}
    /\ tpc' = [tpc EXCEPT ![t] = "MT_lock_unset"]
    /\ UNCHANGED <<fn, client, cntxt, query_lock, ncalls, locks, gil>>
    /\ UNCHANGED notPyVars

\* Lines 117 and 290.
MT_lock_unset(t) ==
    /\ tpc[t] = "MT_lock_unset"
    /\ locks' = [locks EXCEPT ![query_lock[t]] = NoThread]
    /\ tpc' = [tpc EXCEPT ![t] = "end_allow_threads"]
    /\ UNCHANGED <<fn, client, cntxt, query_lock, ncalls, gil>>
    /\ UNCHANGED notPyVars

\* Lines 118 and 291: the interpreter lock is taken again.
Py_END_ALLOW_THREADS(t) ==
    /\ tpc[t] = "end_allow_threads"
    /\ gil = NoThread
    /\ gil' = t
    /\ tpc' = [tpc EXCEPT ![t] = "result"]
    /\ UNCHANGED <<fn, client, cntxt, query_lock, ncalls, locks>>
    /\ UNCHANGED notPyVars

\* Lines 119-153, and lines 292-303 with the caller's cleanup: the result or
\* the error goes back to the interpreter.
PyResult(t) ==
    /\ tpc[t] = "result"
    /\ PyLeave(t)
    /\ UNCHANGED locks
    /\ UNCHANGED notPyVars

\* The steps of a call that has started.
PyStep(t) ==
    \/ monetdb_sql(t)
    \/ monetdb_create(t)
    \/ monetdb_insert(t)
    \/ monetdb_get_columns(t)
    \/ monetdblite_insert(t)
    \/ Py_BEGIN_ALLOW_THREADS(t)
    \/ MT_lock_set(t)
    \/ EngineReturn(t)
    \/ MT_lock_unset(t)
    \/ Py_END_ALLOW_THREADS(t)
    \/ PyResult(t)

PyNext ==
    \E t \in Threads :
        \/ PyEnter(t)
        \/ monetdb_sql(t)
        \/ monetdb_create(t)
        \/ monetdb_insert(t)
        \/ monetdb_get_columns(t)
        \/ monetdblite_insert(t)
        \/ Py_BEGIN_ALLOW_THREADS(t)
        \/ MT_lock_set(t)
        \/ EngineReturn(t)
        \/ MT_lock_unset(t)
        \/ Py_END_ALLOW_THREADS(t)
        \/ PyResult(t)

\* A thread that has started a call and can take a step takes it: the
\* operating system schedules every thread, and the engine's calls return.
PySpec == PyInit /\ [][PyNext]_vars /\ \A t \in Threads : WF_vars(PyStep(t))

(***************************************************************************)
(* stethoscope (specification StethSpec).  main builds the list of         *)
(* wthreads and runs doProfile for each, in a thread of its own or, with   *)
(* one server, itself; a signal runs stopListening at any moment.          *)
(***************************************************************************)
StethInit ==
    /\ input = NoInput
    /\ StmtInit
    /\ PyStart
    /\ StethStart
    /\ GridStart

Alive == ~crashed /\ mpc # "done"

\* stopListening (lines 186-196) walking the list from wk: the streams it
\* closes, and whether it read a pointer nobody had written or memory that
\* was freed.
RECURSIVE stopListening(_, _)
stopListening(wk, ws) ==
    IF wk = NULL_PTR THEN [wthreads |-> ws, ub |-> FALSE]
    ELSE IF wk = UNINIT_PTR \/ ws[wk].mem # "live" \/ ws[wk].s = UNINIT
    THEN [wthreads |-> ws, ub |-> TRUE]
    ELSE stopListening(ws[wk].next,
                       IF ws[wk].s # "NULL" THEN [ws EXCEPT ![wk].s = "closed"]
                       ELSE ws)

\* The doProfiles that run and have not opened their stream.
BeforeStream == {h \in Hosts : wpc[h] \in {"connect", "counters", "udp_rastream"}}

\* A signal is delivered and its handler runs.  On undefined behaviour the
\* walk ends there, with the process ended by a fault or going on.
Signal ==
    /\ Alive
    /\ Len(sigs) < MaxSignals
    /\ sigs' = Append(sigs, BeforeStream)
    /\ LET r == stopListening(thds, wthreads)
       IN /\ wthreads' = r.wthreads
          /\ ub' = (ub \/ r.ub)
          /\ crashed' \in (IF r.ub THEN BOOLEAN ELSE {FALSE})
    /\ UNCHANGED <<mpc, alts, thds, walk, wpc, tick, cleaned>>
    /\ UNCHANGED notStethVars

\* Lines 507-512: mapi_resolve finds no alternative (alts == NULL) or some.
MainResolve ==
    /\ Alive
    /\ mpc = "mapi_resolve"
    /\ alts' \in 0..MaxHosts
    /\ mpc' = "malloc"
    /\ UNCHANGED <<thds, walk, wthreads, wpc, tick, sigs, crashed, ub, cleaned>>
    /\ UNCHANGED notStethVars

\* Lines 518 and 531: walk = thds = malloc(sizeof(wthread)).
MainMalloc ==
    /\ Alive
    /\ mpc = "malloc"
    /\ thds' = 1
    /\ walk' = 1
    /\ wthreads' = [wthreads EXCEPT ![1] = MallocWthread]
    /\ mpc' = IF alts = 0 THEN "single" ELSE "pthread_create"
    /\ UNCHANGED <<alts, wpc, tick, sigs, crashed, ub, cleaned>>
    /\ UNCHANGED notStethVars

\* Lines 519-527: the only wthread is filled in and main calls doProfile.
MainSingle ==
    /\ Alive
    /\ mpc = "single"
    /\ wthreads' = [wthreads EXCEPT ![walk].s = "NULL", ![walk].next = NULL_PTR]
    /\ wpc' = [wpc EXCEPT ![walk] = "connect"]
    /\ mpc' = "doProfile"
    /\ UNCHANGED <<alts, thds, walk, tick, sigs, crashed, ub, cleaned>>
    /\ UNCHANGED notStethVars

\* Lines 527-528: doProfile has returned; free(walk) and main returns.
MainSingleReturn ==
    /\ Alive
    /\ mpc = "doProfile"
    /\ wpc[walk] = "exited"
    /\ wthreads' = [wthreads EXCEPT ![walk].mem = "freed"]
    /\ mpc' = "done"
    /\ UNCHANGED <<alts, thds, walk, wpc, tick, sigs, crashed, ub, cleaned>>
    /\ UNCHANGED notStethVars

\* Lines 534-544: the wthread is filled in (s = NULL, next left alone) and
\* its thread is created.
MainCreate ==
    /\ Alive
    /\ mpc = "pthread_create"
    /\ wthreads' = [wthreads EXCEPT ![walk].s = "NULL"]
    /\ wpc' = [wpc EXCEPT ![walk] = "connect"]
    /\ mpc' = IF walk = alts THEN "terminate" ELSE "extend"
    /\ UNCHANGED <<alts, thds, walk, tick, sigs, crashed, ub, cleaned>>
    /\ UNCHANGED notStethVars

\* Line 545: walk = walk->next = malloc(sizeof(wthread)).
MainExtend ==
    /\ Alive
    /\ mpc = "extend"
    /\ wthreads' = [wthreads EXCEPT ![walk].next = walk + 1,
                                    ![walk + 1] = MallocWthread]
    /\ walk' = walk + 1
    /\ mpc' = "pthread_create"
    /\ UNCHANGED <<alts, thds, wpc, tick, sigs, crashed, ub, cleaned>>
    /\ UNCHANGED notStethVars

\* Lines 547-549: walk->next = NULL; free(oalts); walk = thds.
MainTerminate ==
    /\ Alive
    /\ mpc = "terminate"
    /\ wthreads' = [wthreads EXCEPT ![walk].next = NULL_PTR]
    /\ walk' = thds
    /\ mpc' = "pthread_join"
    /\ UNCHANGED <<alts, thds, wpc, tick, sigs, crashed, ub, cleaned>>
    /\ UNCHANGED notStethVars

\* Lines 549-553: pthread_join returns, the wthread is freed, and then
\* walk->next is read from it: the value it held, or a fault.
MainJoin ==
    /\ Alive
    /\ mpc = "pthread_join"
    /\ wpc[walk] = "exited"
    /\ wthreads' = [wthreads EXCEPT ![walk].mem = "freed"]
    /\ ub' = TRUE
    /\ \E fault \in BOOLEAN :
         /\ crashed' = fault
         /\ IF fault THEN UNCHANGED <<walk, mpc>>
            ELSE /\ walk' = wthreads[walk].next
                 /\ mpc' = IF wthreads[walk].next = NULL_PTR THEN "done"
                           ELSE "pthread_join"
    /\ UNCHANGED <<alts, thds, wpc, tick, sigs, cleaned>>
    /\ UNCHANGED notStethVars

MainStep ==
    \/ MainResolve
    \/ MainMalloc
    \/ MainSingle
    \/ MainSingleReturn
    \/ MainCreate
    \/ MainExtend
    \/ MainTerminate
    \/ MainJoin

\* doProfile of wthread h goes on at p.
ProfileGoto(h, p) ==
    /\ wpc' = [wpc EXCEPT ![h] = p]
    /\ UNCHANGED <<mpc, alts, thds, walk, sigs, crashed, ub>>
    /\ UNCHANGED notStethVars

\* Lines 277-282: the connection is made, or die() goes to stop_disconnect.
Connect(h) ==
    /\ Alive
    /\ wpc[h] = "connect"
    /\ \E ok \in BOOLEAN : ProfileGoto(h, IF ok THEN "counters" ELSE "stop_disconnect")
    /\ UNCHANGED <<wthreads, tick, cleaned>>

\* Lines 291-327: the counters are set and the port of the UDP stream is
\* asked for; a failed query dies, a missing port goes to stop_cleanup.
Counters(h) ==
    /\ Alive
    /\ wpc[h] = "counters"
    /\ \E p \in {"udp_rastream", "stop_cleanup", "stop_disconnect"} : ProfileGoto(h, p)
    /\ UNCHANGED <<wthreads, tick, cleaned>>

\* Lines 332-339: wthr->s = udp_rastream(...), NULL when it fails.
OpenStream(h) ==
    /\ Alive
    /\ wpc[h] = "udp_rastream"
    /\ \E opened \in BOOLEAN :
         /\ wthreads' = [wthreads EXCEPT ![h].s = IF opened THEN "open" ELSE "NULL"]
         /\ ProfileGoto(h, IF opened THEN "filters" ELSE "stop_cleanup")
    /\ UNCHANGED <<tick, cleaned>>

\* Lines 341-365: the filters are set and the profiler is started; a failed
\* query dies.
Filters(h) ==
    /\ Alive
    /\ wpc[h] = "filters"
    /\ \E ok \in BOOLEAN : ProfileGoto(h, IF ok THEN "stream_read" ELSE "stop_disconnect")
    /\ UNCHANGED <<wthreads, tick, cleaned>>

\* Lines 371-403: stream_read returns the next events, which are printed,
\* or 0 from a stream that was closed, which ends the loop.
ReadEvents(h) ==
    /\ Alive
    /\ wpc[h] = "stream_read"
    /\ IF wthreads[h].s = "closed"
       THEN /\ ProfileGoto(h, "stop_cleanup")
            /\ UNCHANGED tick
       ELSE /\ tick' = [tick EXCEPT ![h] = 1 - @]
            /\ ProfileGoto(h, "stream_read")
    /\ UNCHANGED <<wthreads, cleaned>>

\* Lines 405-408: profiler.setNone, profiler.stop, profiler.closeStream; a
\* failed query dies.
StopCleanup(h) ==
    /\ Alive
    /\ wpc[h] = "stop_cleanup"
    /\ \E ok \in BOOLEAN : cleaned' = [cleaned EXCEPT ![h] = ok]
    /\ ProfileGoto(h, "stop_disconnect")
    /\ UNCHANGED <<wthreads, tick>>

\* Lines 409-415: mapi_disconnect, mapi_destroy, return.
StopDisconnect(h) ==
    /\ Alive
    /\ wpc[h] = "stop_disconnect"
    /\ ProfileGoto(h, "exited")
    /\ UNCHANGED <<wthreads, tick, cleaned>>

doProfile(h) ==
    \/ Connect(h)
    \/ Counters(h)
    \/ OpenStream(h)
    \/ Filters(h)
    \/ ReadEvents(h)
    \/ StopCleanup(h)
    \/ StopDisconnect(h)

StethNext ==
    \/ Signal
    \/ MainResolve
    \/ MainMalloc
    \/ MainSingle
    \/ MainSingleReturn
    \/ MainCreate
    \/ MainExtend
    \/ MainTerminate
    \/ MainJoin
    \/ \E h \in Hosts :
         \/ Connect(h)
         \/ Counters(h)
         \/ OpenStream(h)
         \/ Filters(h)
         \/ ReadEvents(h)
         \/ StopCleanup(h)
         \/ StopDisconnect(h)

\* main and every doProfile keep running (threads are scheduled, queries to
\* the server return, events keep coming); nothing makes a signal come.
StethSpec ==
    StethInit /\ [][StethNext]_vars /\ WF_vars(MainStep)
        /\ \A h \in Hosts : WF_vars(doProfile(h))

(***************************************************************************)
(* The row grid (specification GridSpec): the allocation of ResultRows and *)
(* the stores into it, for the counts of GridDims.  An overflow of int is  *)
(* undefined: the build wraps or traps.                                    *)
(***************************************************************************)
GridInit ==
    /\ input = NoInput
    /\ StmtInit
    /\ PyStart
    /\ StethStart
    /\ GridStart

\* Lines 292-298: nRows = status; ResultRows = NEW_ARRAY(char *, (nCols + 1)
\* * (nRows + 1)).  A count that is not positive gives no element: malloc(0),
\* or a size no malloc can serve.
GridAlloc ==
    /\ gpc = "frame"
    /\ \E nc \in GridDims, nr \in GridDims :
         LET n == AllocCount(nc, nr)
         IN /\ gnCols' = nc
            /\ gnRows' = nr
            /\ \E trap \in {FALSE} \cup (IF n.ovf THEN {TRUE} ELSE {}) :
                 /\ gpc' = IF trap THEN "trapped" ELSE "rows"
                 /\ gcount' = IF trap \/ n.v < 0 THEN 0 ELSE n.v
    /\ UNCHANGED gstored
    /\ UNCHANGED notGridVars

\* Line 335 for one cell of the grid: ResultRows[nRow * nCols + nCol] = ...
GridStore ==
    /\ gpc = "rows"
    /\ Cardinality(gstored) < MaxStores
    /\ \E cell \in GridCells(gnCols, gnRows) :
         LET ix == GridIndex(cell.nRow, gnCols, cell.nCol)
         IN \E trap \in {FALSE} \cup (IF ix.ovf THEN {TRUE} ELSE {}) :
              /\ gpc' = IF trap THEN "trapped" ELSE "rows"
              /\ gstored' = IF trap THEN gstored
                            ELSE gstored \cup {[nRow |-> cell.nRow, nCol |-> cell.nCol,
                                                index |-> ix.v]}
    /\ UNCHANGED <<gnCols, gnRows, gcount>>
    /\ UNCHANGED notGridVars

GridNext ==
    \/ GridAlloc
    \/ GridStore

GridSpec == GridInit /\ [][GridNext]_vars

(***************************************************************************)
(* What the call in progress was given.                                    *)
(***************************************************************************)
RECURSIVE StartOf(_)
StartOf(k) == IF k = 1 THEN 1 ELSE StartOf(k - 1) + Len(Tokens(input.resps[k - 1]))

\* The stream from the first token of response k on.
Suffix(k) == SubSeq(InputStream(input), StartOf(k), Len(InputStream(input)))

\* The response whose first frame is at the read position rs (0: none).
RespAt(rs) ==
    IF \E k \in 1..Len(input.resps) : StartOf(k) <= Len(InputStream(input)) /\ Suffix(k) = rs
    THEN CHOOSE k \in 1..Len(input.resps) :
           StartOf(k) <= Len(InputStream(input)) /\ Suffix(k) = rs
    ELSE 0

\* The call in progress (or the last one) started at the first frame of a
\* result response, and the stream holds that response to its end.
WholeResult ==
    /\ entry.State = "PREPARED"
    /\ RespAt(entry.Mrs) # 0
    /\ input.resps[RespAt(entry.Mrs)].kind = "result"
    /\ Len(entry.Mrs) >= Len(Tokens(input.resps[RespAt(entry.Mrs)]))

TheResp == input.resps[RespAt(entry.Mrs)]

\* The header decoder has just left its loop.
HeaderDecoded == pc = "next_result" /\ site = 2

\* The records of a header payload, split at the newlines and at the first
\* comma of each.
RECURSIVE SplitAt(_, _)
SplitAt(p, d) ==
    IF p = <<>> THEN <<>>
    ELSE LET k == strchr(p, 1, d)
         IN IF k = 0 THEN <<p>>
            ELSE <<SubSeq(p, 1, k - 1)>> \o SplitAt(SubSeq(p, k + 1, Len(p)), d)

RecordName(rec) == SubSeq(rec, 1, strchr(rec, 1, COMMA) - 1)
RecordType(rec) == SubSeq(rec, strchr(rec, 1, COMMA) + 1, Len(rec))

\* The descriptors the decoder stores when the payload comes in one chunk.
ContiguousCols(r) ==
    HeaderRun(HeaderStart(<<IntTok(7), BytesTok(r.hdr)>>, r.nCols, Garbage0),
              Garbage0).cols

(***************************************************************************)
(* C1: however the header payload is cut into chunks by the refills, the   *)
(* header decoder stores the same column descriptors as it does when the   *)
(* payload arrives in one chunk.                                           *)
(***************************************************************************)
C1_SplitEqualsContiguous ==
    (HeaderDecoded /\ WholeResult) => ResultCols.cols = ContiguousCols(TheResp)

(***************************************************************************)
(* C6: the header decoder stores exactly nCols descriptors, the k-th one   *)
(* with the name and the raw type name of the k-th record of the payload.  *)
(***************************************************************************)
C6_OneDescriptorPerRecord ==
    (HeaderDecoded /\ WholeResult) =>
        /\ Len(ResultCols.cols) = TheResp.nCols
        /\ pCol = TheResp.nCols + 1
        /\ \A k \in 1..TheResp.nCols :
             /\ ResultCols.cols[k].filled
             /\ ResultCols.cols[k].name = RecordName(SplitAt(TheResp.hdr, NL)[k])
             /\ ResultCols.cols[k].typeName = RecordType(SplitAt(TheResp.hdr, NL)[k])

\* The same for a payload that arrives in one chunk.
C6_ContiguousDecoded ==
    (HeaderDecoded /\ WholeResult /\ TheResp.hcuts = {}) =>
        /\ pCol = TheResp.nCols + 1
        /\ \A k \in 1..TheResp.nCols :
             /\ ResultCols.cols[k].filled
             /\ ResultCols.cols[k].name = RecordName(SplitAt(TheResp.hdr, NL)[k])
             /\ ResultCols.cols[k].typeName = RecordType(SplitAt(TheResp.hdr, NL)[k])

(***************************************************************************)
(* C2: when a table-rows frame announces R > 0 rows and the stream ends    *)
(* before R complete rows were read, SQLExecute does not return            *)
(* SQL_SUCCESS with State EXECUTED: a result it reports as complete holds  *)
(* every field of its nrRows rows.                                         *)
(***************************************************************************)
\* The frame header the last next_result read was a table-rows frame that
\* announces rows.
TableFrameRead ==
    /\ Len(hist.frame) >= 2
    /\ hist.frame[1] = IntTok(Q_TABLE)
    /\ hist.frame[2].t = "int" /\ hist.frame[2].v > 0

C2_NoShortResult ==
    (/\ pc = "idle" /\ ret = SQL_SUCCESS /\ State = "EXECUTED"
     /\ ResultRows.alloc /\ TableFrameRead) =>
        \A r \in 1..nrRows : \A c \in 1..nrCols :
            ResultRows.cells[r * nrCols + c].set

(***************************************************************************)
(* C3: a frame with a negative status makes next_result discard the error  *)
(* payload up to and including the block flagged as last and return an     *)
(* error; the read position is then the first byte of the next frame, so   *)
(* the next call starts at the frame that follows.                         *)
(***************************************************************************)
\* The number of tokens of the error frame that starts rs (0: rs does not
\* start with a whole frame that has a negative status).
RECURSIVE LastBlock(_, _)
LastBlock(rs, k) ==
    IF k > Len(rs) \/ rs[k].t # "blk" THEN 0
    ELSE IF rs[k].last THEN k
    ELSE LastBlock(rs, k + 1)

ErrFrameLen(rs) ==
    IF /\ Len(rs) >= 3
       /\ rs[1].t = "int" /\ rs[1].v # Q_END
       /\ rs[2].t = "int" /\ rs[2].v < 0
    THEN LastBlock(rs, 3)
    ELSE 0

C3_ErrorFrameDrained ==
    /\ (pc = "idle" /\ ErrFrameLen(hist.frame) > 0) =>
          /\ ret = SQL_ERROR
          /\ errors # <<>> /\ errors[Len(errors)] = "HY000"
          /\ Mrs = SubSeq(hist.frame, ErrFrameLen(hist.frame) + 1, Len(hist.frame))
    /\ (pc \in {"next_result", "drain"} /\ ErrFrameLen(hist.frame) > 0) =>
          \E k \in 0..ErrFrameLen(hist.frame) :
              Mrs = SubSeq(hist.frame, k + 1, Len(hist.frame))
    \* the call after the one that was answered by an error response
    /\ (/\ entry.State = "PREPARED" /\ Len(entry.Mws) = 2
        /\ Len(input.resps) = 2 /\ input.resps[1].kind = "error"
        /\ input.keep >= Len(Tokens(input.resps[1]))) =>
          entry.Mrs = Suffix(2)

\* A result response that follows an error response with two blocks has
\* been decoded by the second call.
C3_Witness ==
    /\ pc = "idle" /\ calls = 2 /\ ret = SQL_SUCCESS
    /\ Len(input.resps) = 2
    /\ input.resps[1] = ErrorResp(2)
    /\ input.resps[2].kind = "result"
    /\ Len(Mws) = 4
    /\ ResultCols.alloc /\ ResultCols.cols = ContiguousCols(input.resps[2])
    /\ ResultRows.alloc /\ ResultRows.cells[2].v = <<"x">>

(***************************************************************************)
(* C4: SQLExecute on a statement that is not PREPARED fails with SQLSTATE  *)
(* 24000 and SQL_ERROR, writes nothing, reads nothing, and leaves State,   *)
(* the result columns and the result rows as they were.                    *)
(***************************************************************************)
C4_InvalidStateNoEffect ==
    [][(pc = "idle" /\ State # "PREPARED" /\ calls' = calls + 1) =>
          /\ ret' = SQL_ERROR
          /\ errors' = <<"24000">>
          /\ pc' = "idle"
          /\ Mws' = Mws
          /\ Mrs' = Mrs
          /\ State' = State
          /\ ResultCols' = ResultCols
          /\ ResultRows' = ResultRows]_vars

\* A call on a statement that an earlier call had executed, with a result.
C4_Witness ==
    /\ pc = "idle" /\ calls = 2
    /\ entry.State = "EXECUTED" /\ State = "EXECUTED"
    /\ ret = SQL_ERROR /\ errors = <<"24000">>
    /\ ResultRows.alloc /\ entry.ResultRows = ResultRows
    /\ Mrs # <<>> /\ entry.Mrs = Mrs /\ entry.Mws = Mws

(***************************************************************************)
(* C5: an execution that starts in PREPARED ends in EXECUTED when it       *)
(* succeeded and in ERROR when it failed; a failed execution does not      *)
(* leave the statement PREPARED.                                           *)
(***************************************************************************)
C5_EndsExecutedOrError ==
    [][(pc # "idle" /\ pc' = "idle") =>
          \/ ret' = SQL_SUCCESS /\ State' = "EXECUTED"
          \/ ret' = SQL_ERROR /\ State' = "ERROR"]_vars

(***************************************************************************)
(* What a row payload says, read independently of the decoder.             *)
(***************************************************************************)
\* The tab-separated fields of one row (an empty row is one empty field).
RECURSIVE SplitFields(_)
SplitFields(row) ==
    LET k == strchr(row, 1, TAB)
    IN IF k = 0 THEN <<row>>
       ELSE <<SubSeq(row, 1, k - 1)>> \o SplitFields(SubSeq(row, k + 1, Len(row)))

\* A field without its outer quotes, when it is bounded by a matching pair.
RefUnquote(f) ==
    IF Len(f) >= 2 /\ f[1] = f[Len(f)] /\ f[1] \in {DQUOTE, QUOTE}
    THEN SubSeq(f, 2, Len(f) - 1)
    ELSE f

\* The fields of a payload in row-major order, a delimiter inside a quoted
\* field being part of the field.  cur: the field so far; q: the open quote.
RECURSIVE QFields(_, _, _)
QFields(p, cur, q) ==
    IF p = <<>> THEN <<>>
    ELSE IF q = "none"
    THEN IF Head(p) \in {TAB, NL} THEN <<cur>> \o QFields(Tail(p), <<>>, "none")
         ELSE IF cur = <<>> /\ Head(p) \in {DQUOTE, QUOTE}
         THEN QFields(Tail(p), <<Head(p)>>, Head(p))
         ELSE QFields(Tail(p), cur \o <<Head(p)>>, "none")
    ELSE IF Head(p) = q /\ (Tail(p) = <<>> \/ Head(Tail(p)) \in {TAB, NL})
    THEN QFields(Tail(p), cur \o <<Head(p)>>, "none")
    ELSE QFields(Tail(p), cur \o <<Head(p)>>, q)

HasEmbeddedDelimiter(p) ==
    \E k \in 1..Len(QFields(p, <<>>, "none")) :
        LET f == QFields(p, <<>>, "none")[k]
        IN /\ RefUnquote(f) # f
           /\ \E i \in 2..(Len(f) - 1) : f[i] \in {COMMA, TAB, NL}

Cell(r, c) == ResultRows.cells[r * nrCols + c]

\* The last call decoded a whole result response, delivered with every
\* payload in one chunk, and returned SQL_SUCCESS.
ContiguousSuccess ==
    /\ pc = "idle" /\ ret = SQL_SUCCESS /\ ResultRows.alloc
    /\ WholeResult
    /\ TheResp.hcuts = {} /\ TheResp.rcuts = {}

(***************************************************************************)
(* C7: after a successful row decode the grid is nRows x nCols and cell    *)
(* (r, c) is the c-th tab-separated field of the r-th row of the payload;  *)
(* a row whose number of fields is not nCols is rejected, not stored.      *)
(* Stated for payloads without quote characters that arrive in one chunk.  *)
(***************************************************************************)
\* No byte of the payload is a quote character.
NoQuotes(p) == \A i \in 1..Len(p) : p[i] \notin {DQUOTE, QUOTE}

C7_GridOrRejected ==
    (ContiguousSuccess /\ NoQuotes(TheResp.rows)) =>
        /\ nrRows = TheResp.nRows /\ nrCols = TheResp.nCols
        /\ Len(SplitAt(TheResp.rows, NL)) >= nrRows
        /\ \A r \in 1..nrRows :
             /\ Len(SplitFields(SplitAt(TheResp.rows, NL)[r])) = nrCols
             /\ \A c \in 1..nrCols :
                  /\ Cell(r, c).set
                  /\ Cell(r, c).v = SplitFields(SplitAt(TheResp.rows, NL)[r])[c]

(***************************************************************************)
(* C8: the stored text of a field is the field without its outer quotes    *)
(* exactly when the field starts and ends with a matching pair of quote    *)
(* characters that are two distinct characters of the field; otherwise     *)
(* (the empty field and a lone quote included) it is the raw field.        *)
(* Stated for a one-field payload that arrives in one chunk.               *)
(***************************************************************************)
\* The payload is one row of one field that holds no delimiter.
OneFieldPayload(r) ==
    /\ r.nCols = 1 /\ r.nRows = 1
    /\ Len(r.rows) >= 1
    /\ r.rows[Len(r.rows)] = NL
    /\ \A i \in 1..(Len(r.rows) - 1) : r.rows[i] \notin {TAB, NL}

C8_QuotesStripped ==
    (ContiguousSuccess /\ OneFieldPayload(TheResp)) =>
        /\ Cell(1, 1).set
        /\ Cell(1, 1).v = RefUnquote(SubSeq(TheResp.rows, 1, Len(TheResp.rows) - 1))

(***************************************************************************)
(* C9: a delimiter character (comma, tab, newline) inside a quoted field   *)
(* stays in that field, verbatim, after the outer quotes are removed, and  *)
(* does not change the field boundaries of the row.                        *)
(* Stated for payloads that arrive in one chunk.                           *)
(***************************************************************************)
C9_EmbeddedDelimitersKept ==
    (ContiguousSuccess /\ HasEmbeddedDelimiter(TheResp.rows)) =>
        /\ Len(QFields(TheResp.rows, <<>>, "none")) = nrRows * nrCols
        /\ \A r \in 1..nrRows : \A c \in 1..nrCols :
             /\ Cell(r, c).set
             /\ Cell(r, c).v =
                  RefUnquote(QFields(TheResp.rows, <<>>, "none")[(r - 1) * nrCols + c])

(***************************************************************************)
(* C10: with N markers and N bound values the query sent is the template   *)
(* with the k-th marker replaced by the k-th value in single quotes, each  *)
(* single quote of the value preceded by one backslash, everything else    *)
(* copied unchanged, and no marker left.                                   *)
(***************************************************************************)
RECURSIVE Escaped(_)
Escaped(v) ==
    IF v = <<>> THEN <<>>
    ELSE (IF Head(v) = QUOTE THEN <<BSLASH, QUOTE>> ELSE <<Head(v)>>) \o Escaped(Tail(v))

RECURSIVE RefSubst(_, _)
RefSubst(tmpl, params) ==
    IF tmpl = <<>> THEN <<>>
    ELSE IF Head(tmpl) = MARKER
    THEN <<QUOTE>> \o Escaped(Head(params).v) \o <<QUOTE>> \o RefSubst(Tail(tmpl), Tail(params))
    ELSE <<Head(tmpl)>> \o RefSubst(Tail(tmpl), params)

\* The call has just sent its query: N markers, N bound values, N >= 1.
SentWithAllBound ==
    /\ pc = "next_result" /\ site = 1
    /\ bindParams # <<>>
    /\ \A k \in 1..Len(bindParams) : bindParams[k].bound
    /\ Count(Query, MARKER) = Len(bindParams)

C10_MarkersReplaced ==
    SentWithAllBound => Mws[Len(Mws) - 1] = RefSubst(Query, bindParams)

(***************************************************************************)
(* C11: when the template holds more markers than there are bound values,  *)
(* SQLExecute fails before any network I/O: the call returns SQL_ERROR at  *)
(* once, writes nothing to the write stream, reads nothing, and leaves     *)
(* State as it was.                                                        *)
(***************************************************************************)
\* Counted on the parameter array itself, not by the loops of SQLExecute.
NumBound(params) == Cardinality({k \in 1..Len(params) : params[k].bound})

C11_UnboundFailsBeforeIO ==
    [][(/\ pc = "idle" /\ State = "PREPARED" /\ calls' = calls + 1
        /\ ~ResultCols.alloc /\ ~ResultRows.alloc
        /\ Count(Query, MARKER) > NumBound(bindParams)) =>
          /\ ret' = SQL_ERROR
          /\ pc' = "idle"
          /\ errors' # <<>>
          /\ Mws' = Mws
          /\ Mrs' = Mrs
          /\ State' = State]_vars

(***************************************************************************)
(* C12: the type tag of a decoded column is the entry of the type table    *)
(* for the column's raw type name, compared as whole strings; a raw type   *)
(* name that is not in the table leaves the tag 0 and the decode goes on;  *)
(* the display width is the length of the column name plus 2.              *)
(***************************************************************************)
\* The table read as a set of pairs: the tag of the entry with this very
\* name, 0 when there is none.
RefTag(n) ==
    LET hit == {k \in 1..Len(sql_types) : sql_types[k].name = n}
    IN IF hit = {} THEN 0 ELSE sql_types[CHOOSE k \in hit : TRUE].type

C12_TypeTagAndWidth ==
    \* every descriptor that was filled
    /\ \A k \in 1..Len(ResultCols.cols) :
         ResultCols.cols[k].filled =>
           /\ ResultCols.cols[k].type = RefTag(ResultCols.cols[k].typeName)
           /\ ResultCols.cols[k].displaySize = Len(ResultCols.cols[k].name) + 2
    \* against the records of a payload that arrived in one chunk
    /\ (HeaderDecoded /\ WholeResult /\ TheResp.hcuts = {}) =>
         \A k \in 1..TheResp.nCols :
           /\ ResultCols.cols[k].type = RefTag(RecordType(SplitAt(TheResp.hdr, NL)[k]))
           /\ ResultCols.cols[k].displaySize =
                Len(RecordName(SplitAt(TheResp.hdr, NL)[k])) + 2
    \* whatever the type name, the call goes through
    /\ (pc = "idle" /\ ResultCols.alloc /\ WholeResult /\ TheResp \in TypeResponses) =>
         /\ ret = SQL_SUCCESS
         /\ ResultCols.cols[1].filled
         /\ ResultCols.cols[1].typeName = RecordType(SplitAt(TheResp.hdr, NL)[1])

\* A column whose type name is not in the table has been decoded, and the
\* call has succeeded.
C12_Witness ==
    /\ pc = "idle" /\ ret = SQL_SUCCESS /\ State = "EXECUTED"
    /\ WholeResult /\ TheResp.hdr = HType(<<"x", "y">>)
    /\ ResultCols.cols[1].filled
    /\ ResultCols.cols[1].name = <<"c">>
    /\ ResultCols.cols[1].typeName = <<"x", "y">>
    /\ ResultCols.cols[1].type = 0
    /\ ResultCols.cols[1].displaySize = 3
    /\ ResultRows.cells[2].v = <<"x">>

(***************************************************************************)
(* C13: a frame whose type tag is not one of the recognised tags, whatever *)
(* its sign, is treated as an error: its payload is read and discarded up  *)
(* to the block flagged as last, and the call reports an error (HY000),    *)
(* not a status.                                                           *)
(***************************************************************************)
RecognisedTags == {Q_END, Q_RESULT, Q_TABLE, Q_UPDATE}

\* The call in progress (or the last one) was answered by a whole frame
\* with an unrecognised type tag.
UnknownFrame ==
    /\ entry.State = "PREPARED"
    /\ RespAt(entry.Mrs) # 0
    /\ input.resps[RespAt(entry.Mrs)].kind = "unknown"
    /\ Len(entry.Mrs) >= Len(Tokens(input.resps[RespAt(entry.Mrs)]))
    /\ entry.Mrs[1].v \notin RecognisedTags

C13_UnknownTagIsError ==
    (pc = "idle" /\ UnknownFrame) =>
        /\ ret = SQL_ERROR
        /\ errors # <<>> /\ errors[Len(errors)] = "HY000"
        /\ State # "EXECUTED"
        /\ Mrs = SubSeq(entry.Mrs, Len(Tokens(TheResp)) + 1, Len(entry.Mrs))

(***************************************************************************)
(* C14: when the stream ends inside the header payload, before nCols       *)
(* complete records were delivered, SQLExecute returns an error: it does   *)
(* not return SQL_SUCCESS and does not set State to EXECUTED.              *)
(***************************************************************************)
\* The call in progress (or the last one) was answered by a result-header
\* frame (type, nCols, id) and the stream ended before the last chunk of
\* the header payload.
HeaderTruncated ==
    /\ entry.State = "PREPARED"
    /\ RespAt(entry.Mrs) # 0
    /\ input.resps[RespAt(entry.Mrs)].kind = "result"
    /\ Len(entry.Mrs) >= 3
    /\ Len(entry.Mrs) < 3 + Len(Chunks(TheResp.hdr, TheResp.hcuts))
    \* every chunk that did arrive is long enough to be read as an integer
    /\ \A k \in 4..Len(entry.Mrs) : Len(entry.Mrs[k].d) >= 4

C14_TruncatedHeaderIsError ==
    (pc = "idle" /\ HeaderTruncated) =>
        /\ ret = SQL_ERROR
        /\ errors # <<>>
        /\ State # "EXECUTED"

(***************************************************************************)
(* C15: between two prepares at most one SQLExecute call returns           *)
(* SQL_SUCCESS: a call returns SQL_SUCCESS only on a PREPARED statement    *)
(* and leaves it EXECUTED; every call on an EXECUTED statement fails with  *)
(* SQLSTATE 24000 and leaves it EXECUTED; and only the prepare from        *)
(* outside, never a step of SQLExecute, takes a statement out of EXECUTED. *)
(***************************************************************************)
C15_AtMostOneSuccess ==
    /\ [][(pc # "idle" /\ pc' = "idle" /\ ret' = SQL_SUCCESS) =>
            /\ entry.State = "PREPARED"
            /\ State = "PREPARED"
            /\ State' = "EXECUTED"]_vars
    /\ [][(State = "EXECUTED" /\ calls' = calls + 1) =>
            /\ ret' = SQL_ERROR
            /\ errors' = <<"24000">>
            /\ pc' = "idle"
            /\ State' = "EXECUTED"]_vars
    /\ [][(State = "EXECUTED" /\ State' # "EXECUTED") =>
            /\ pc = "idle" /\ pc' = "idle"
            /\ calls' = calls
            /\ ret' = ret
            /\ State' = "PREPARED"]_vars

\* Two calls without a prepare in between: the first one succeeded, the
\* second one was refused and the second response is still unread.
C15_Witness ==
    /\ pc = "idle" /\ calls = 2
    /\ input.resps = <<UpdateResp, UpdateResp>>
    /\ entry.State = "EXECUTED" /\ State = "EXECUTED"
    /\ ret = SQL_ERROR /\ errors = <<"24000">>
    /\ Len(Mws) = 2
    /\ Mrs = Tokens(UpdateResp)

(***************************************************************************)
(* C16: every SQLExecute call that has started returns, whatever the       *)
(* stream delivers: when the stream ends inside a header name, a header    *)
(* type, a row field or an error payload that is being drained, the call   *)
(* ends with an error and does not go on reading forever.                  *)
(***************************************************************************)
\* No call is running: it has returned, or the process has ended.
CallOver == pc \in {"idle", "crashed", "aborted"}

\* Both integers of the frame header that next_result read last were there.
FrameHeaderRead ==
    /\ Len(hist.frame) >= 2
    /\ hist.frame[1].t = "int" /\ hist.frame[2].t = "int"

C16_CallReturns == (~CallOver /\ FrameHeaderRead) ~> CallOver

(***************************************************************************)
(* C17: a row payload that arrives split into chunks gives the same grid   *)
(* as the same payload arriving in one chunk: the text of a field that     *)
(* spans a refill is the bytes before the refill followed by the bytes     *)
(* after it.  Stated for payloads of nRows rows of nCols fields without    *)
(* quote characters.                                                       *)
(***************************************************************************)
\* The grid the decoder stores when the payload comes in one chunk.
ContiguousCells(r) ==
    RowsRun(RowsStart(<<BytesTok(r.rows)>>, r.nCols, r.nRows, Garbage0),
            r.nCols, r.nRows, Garbage0).cells

\* nRows rows of nCols fields each.
WellFormedRows(r) ==
    /\ Len(SplitAt(r.rows, NL)) = r.nRows
    /\ \A k \in 1..r.nRows : Len(SplitFields(SplitAt(r.rows, NL)[k])) = r.nCols

C17_SplitRowsEqualContiguous ==
    (/\ pc = "idle" /\ ret = SQL_SUCCESS /\ ResultRows.alloc
     /\ WholeResult /\ TheResp.hcuts = {}
     /\ NoQuotes(TheResp.rows) /\ WellFormedRows(TheResp)) =>
        ResultRows.cells = ContiguousCells(TheResp)

(***************************************************************************)
(* C18: every `?' of the template is a marker, one inside a string literal *)
(* included: the k-th `?' is replaced by the k-th bound value in single    *)
(* quotes and uses that value up, so the markers after it get the values   *)
(* that follow.  Stated for templates with at most as many markers as      *)
(* bound values.                                                           *)
(***************************************************************************)
\* The positions of the `?' bytes of a template, and the k-th of them.
MarkerSet(tmpl) == {i \in 1..Len(tmpl) : tmpl[i] = MARKER}
MarkerAt(tmpl, k) ==
    CHOOSE i \in MarkerSet(tmpl) : Cardinality({j \in MarkerSet(tmpl) : j < i}) = k - 1

\* The call has just sent its query; every parameter is bound and there are
\* at least as many of them as markers.
SentWithEnoughBound ==
    /\ pc = "next_result" /\ site = 1
    /\ bindParams # <<>>
    /\ \A k \in 1..Len(bindParams) : bindParams[k].bound
    /\ Cardinality(MarkerSet(Query)) <= Len(bindParams)

C18_EveryMarkerSubstituted ==
    SentWithEnoughBound =>
        /\ Len(hist.used) = Cardinality(MarkerSet(Query))
        /\ \A k \in 1..Len(hist.used) :
             /\ hist.used[k].at = MarkerAt(Query, k)
             /\ hist.used[k].param = k
        \* the text sent starts with what precedes the first marker and the
        \* first value in quotes
        /\ MarkerSet(Query) # {} =>
             LET head == SubSeq(Query, 1, MarkerAt(Query, 1) - 1)
                         \o <<QUOTE>> \o bindParams[1].v \o <<QUOTE>>
             IN (Count(bindParams[1].v, QUOTE) = 0) =>
                  SubSeq(Mws[Len(Mws) - 1], 1, Len(head)) = head

\* The template '?'? has been sent with the values v and "": the marker
\* inside the literal took v, the one after the literal took the second.
C18_Witness ==
    /\ SentWithEnoughBound
    /\ Query = <<QUOTE, MARKER, QUOTE, MARKER>>
    /\ InLiteral(Query, 2) /\ ~InLiteral(Query, 4)
    /\ bindParams = <<Bound(<<"v">>), Bound(<<>>)>>
    /\ hist.used = <<[at |-> 2, param |-> 1], [at |-> 4, param |-> 2]>>
    /\ SubSeq(Mws[Len(Mws) - 1], 1, 4) = <<QUOTE, QUOTE, "v", QUOTE>>


(***************************************************************************)
(* C19.  For any interleaving of threads calling monetdb_sql and           *)
(* monetdblite_insert with the same client (the default client included),  *)
(* the monetdb_query and monetdb_append calls on that client never overlap *)
(* in time, the lock taken is always the query lock that belongs to the    *)
(* client context being used, and the lock is released on every path after *)
(* the call, so no thread waits forever for it.                            *)
(***************************************************************************)
InEngine(t) == tpc[t] \in {"monetdb_query", "monetdb_append"}

\* The query lock that belongs to a client context.
OwnLock(c) ==
    IF c = monetdb_default_client THEN monetdb_default_query_lock
    ELSE ClientObject.query_lock

Holds(t) == {l \in LockIds : locks[l] = t}

C19_Serialised ==
    /\ \A t, u \in Threads :
         t # u /\ InEngine(t) /\ InEngine(u) => cntxt[t] # cntxt[u]
    /\ \A t \in Threads :
         InEngine(t) => /\ cntxt[t] \in {monetdb_default_client, ClientObject.cntxt}
                        /\ query_lock[t] = OwnLock(cntxt[t])
                        /\ Holds(t) = {query_lock[t]}
    /\ \A t \in Threads :
         tpc[t] \notin {"monetdb_query", "monetdb_append", "MT_lock_unset"}
            => Holds(t) = {}

C19_QueryLockSerialises ==
    /\ []C19_Serialised
    /\ \A t \in Threads : InEngine(t) ~> (Holds(t) = {})
    /\ \A t \in Threads : (tpc[t] = "MT_lock_set") ~> InEngine(t)

\* One thread is inside monetdb_query on the connection's context while the
\* other, in monetdblite_insert with the same connection, waits for the lock.
C19_Witness ==
    \E t, u \in Threads :
        /\ tpc[t] = "monetdb_query"
        /\ cntxt[t] = ClientObject.cntxt
        /\ tpc[u] = "MT_lock_set"
        /\ fn[u] # "monetdb_sql"
        /\ cntxt[u] = cntxt[t]
        /\ query_lock[u] = query_lock[t]
        /\ locks[query_lock[u]] = t


(***************************************************************************)
(* C20.  In stethoscope, after any handled signal (SIGABRT, SIGPIPE,       *)
(* SIGHUP, SIGTERM, SIGINT) is delivered at any point of a profiling       *)
(* session, including before a profiling thread has opened its event       *)
(* stream, every profiling thread eventually leaves its event-reading      *)
(* loop, runs the cleanup (profiler.setNone, profiler.stop,                *)
(* profiler.closeStream), disconnects from its server, and the main thread *)
(* finishes joining all threads.  Stated here for the sessions without     *)
(* undefined behaviour, and for a signal that came while a profiling       *)
(* thread was running and had not opened its stream: from then on the      *)
(* session comes to its end.                                               *)
(***************************************************************************)
EarlySignal == \E i \in 1..Len(sigs) : sigs[i] # {}

SessionOver ==
    /\ mpc = "done"
    /\ \A h \in Hosts : wpc[h] \in {"none", "exited"}

C20_SignalEndsSession == (EarlySignal /\ ~ub) ~> (SessionOver \/ ub)


(***************************************************************************)
(* C21.  For every sequence of SQLExecute calls on a statement, whenever a *)
(* call is entered with State == PREPARED the internal assertions hold,    *)
(* i.e. ResultCols == NULL and ResultRows == NULL; in particular a call    *)
(* that returned SQL_ERROR (after the header was decoded, or during row    *)
(* decoding) leaves no allocated column or row array attached to a         *)
(* statement that is still PREPARED.  Stated here for the call that comes  *)
(* after one that was given, whole, a header frame followed by an error    *)
(* frame, and returned SQL_ERROR.                                          *)
(***************************************************************************)
AfterHeaderError ==
    /\ ret = SQL_ERROR
    /\ entry.State = "PREPARED"
    /\ RespAt(entry.Mrs) # 0
    /\ input.resps[RespAt(entry.Mrs)].kind = "headererror"
    /\ Len(entry.Mrs) >= Len(Tokens(input.resps[RespAt(entry.Mrs)]))

C21_AssertionsHoldAtEntry ==
    [][(pc = "idle" /\ State = "PREPARED" /\ calls' = calls + 1 /\ AfterHeaderError)
          => (~ResultCols.alloc /\ ~ResultRows.alloc)]_vars


(***************************************************************************)
(* C22.  For every byte content of the buffered header window, the header  *)
(* decoder stores at most nCols column descriptors: the write position     *)
(* pCol never moves past ResultCols[nCols], even when the buffered bytes   *)
(* contain more than nCols `name,type\n' records.  Stated here for calls   *)
(* that are given a whole response: no store through pCol lands outside    *)
(* ResultCols[1..nCols].                                                   *)
(***************************************************************************)
C22_AtMostNColsDescriptors == WholeResult => ~hist.ovf


(***************************************************************************)
(* C23.  Every call the Python binding layer makes on a client context     *)
(* (monetdb_query, monetdb_append and monetdb_get_columns) is made while   *)
(* the calling thread holds that client's query lock, so no such call on a *)
(* client can run concurrently with another thread's query or append on    *)
(* the same client.  Stated here by its consequence: a thread inside       *)
(* monetdb_get_columns and another thread inside monetdb_query or          *)
(* monetdb_append are never on the same client context.                    *)
(***************************************************************************)
C23_EngineCallsUnderLock ==
    \A t, u \in Threads :
        (t # u /\ tpc[t] = "monetdb_get_columns" /\ InEngine(u))
            => cntxt[t] # cntxt[u]


(***************************************************************************)
(* C24.  For all nRows >= 1, nCols >= 1 and all cells (nRow, nCol) with    *)
(* 1 <= nRow <= nRows and 1 <= nCol <= nCols, the grid index nRow * nCols  *)
(* + nCol used to store a field is smaller than the allocated element      *)
(* count (nCols + 1) * (nRows + 1), and two different cells never map to   *)
(* the same index.                                                         *)
(***************************************************************************)
C24_GridIndexInBounds ==
    /\ \A c \in gstored : 0 <= c.index /\ c.index < gcount
    /\ \A c, d \in gstored : c.index = d.index => c = d


(***************************************************************************)
(* C25.  For every input string, convert writes only inside the buffer it  *)
(* allocated: the number of bytes it writes, terminating NUL included, is  *)
(* not larger than the allocated length (string length + number of single  *)
(* quotes + 1), and every byte of the result before the NUL is a byte      *)
(* convert wrote.  Stated for the values convert is called with by a       *)
(* SQLExecute call that has just sent its query.                           *)
(***************************************************************************)
JustSent == pc = "next_result" /\ site = 1

C25_ConvertStaysInBuffer ==
    JustSent =>
      \A k \in 1..nConverted(bindParams, 1) :
        /\ \A g \in GarbageBytes :
             /\ convert(bindParams[k].v, g).alloc
                  = Len(bindParams[k].v) + Count(bindParams[k].v, QUOTE) + 1
             /\ convert(bindParams[k].v, g).written
                  <= convert(bindParams[k].v, g).alloc
        \* a byte nobody wrote shows as a result that changes with what the
        \* memory held
        /\ \A g1, g2 \in GarbageBytes :
             convert(bindParams[k].v, g1).res = convert(bindParams[k].v, g2).res


(***************************************************************************)
(* C26.  During parameter substitution with bindParams.size = n >= 1,      *)
(* every index used on the temporary array of converted values (stores at  *)
(* line 144, reads at line 160, frees at lines 170-173) lies in 0..n-1,    *)
(* the range allocated by calloc, every converted value that was stored is *)
(* freed exactly once, and the length of the substituted query text stays  *)
(* below the computed queryLen.                                            *)
(***************************************************************************)
StoredAt == 1..nConverted(bindParams, 1)
ReadAt == {hist.used[k].param : k \in 1..Len(hist.used)}

C26_StringsIndexInRange ==
    (JustSent /\ Len(bindParams) >= 1) =>
      /\ StoredAt \subseteq stringsAlloc(bindParams)
      /\ ReadAt \subseteq stringsAlloc(bindParams)
      /\ stringsFreed(bindParams) \subseteq stringsAlloc(bindParams)
      /\ StoredAt \subseteq stringsFreed(bindParams)
      /\ \A g \in GBytePtr :
           Substitute(Query, bindParams, g).text = Mws[Len(Mws) - 1]
              => Len(Mws[Len(Mws) - 1]) < queryLen(Query, bindParams, g)


(***************************************************************************)
(* C27.  In stethoscope, whenever the signal handler stopListening runs (a *)
(* signal may arrive at any point of main, during thread creation, during  *)
(* the joins, or after the single-host session ended), every wthread node  *)
(* it reaches through thds and next is allocated and not yet freed, and    *)
(* its next and s fields have been initialised.                            *)
(***************************************************************************)
C27_HandlerWalksSoundList ==
    [][Len(sigs') > Len(sigs) => ~stopListening(thds, wthreads).ub]_vars

====
